---- MODULE Spec2Model ----
(***************************************************************************)
(* skynet-accounts: token and credential management.                       *)
(*                                                                         *)
(* The module holds one state machine per subsystem, each with its own     *)
(* specification over the shared variables:                                *)
(*   SpecChallenge  the public-key challenge/response protocol             *)
(*                  (ChallengeAuthenticator, spec section 4.4)             *)
(*   SpecToken      the jwt package: key-set cache, TokenForUser,          *)
(*                  ValidateToken, TokenFields, TokenFromContext and the   *)
(*                  token-login handler of the api package                 *)
(***************************************************************************)
EXTENDS Integers, Sequences, FiniteSets, TLC

(***************************************************************************)
(* Bounds of the model.                                                    *)
(***************************************************************************)
\* number of clock ticks a behaviour may take one by one
MaxTicks == 2
\* number of challenges (fresh nonces) issued in one behaviour
MaxNonce == 2
\* number of VerifyResponse requests served in one behaviour
MaxRequests == 2
\* clock ticks per second of Unix time
TicksPerSecond == 2

VARIABLES
    now,            \* the wall clock, in ticks
    \* ---- ChallengeAuthenticator
    challenges,     \* the pending-challenge store: a set of challenge records
    nextNonce,      \* the next fresh nonce
    identities,     \* the identity store: records [sub, pubKey, email]
    arrived,        \* number of VerifyResponse requests that have arrived
    vpc,            \* per request: its position inside VerifyResponse
    vreq,           \* per request in flight: what the client sent
    vout,           \* per request: the outcome of VerifyResponse
    accepted,       \* history: nonce -> the successful consumptions (count, request)
    \* ---- package jwt and the token login of package api
    AccountsJWKS,       \* the cached key set used for signing
    AccountsPublicJWKS, \* the cached verification-only key set
    issued,         \* the last TokenForUser call: its arguments and its result
    wire,           \* the serialized token the client presents with its request
    vres,           \* what ValidateToken returned for the presented token
    fres,           \* what TokenFields returned for the validated token
    cres,           \* what TokenFromContext returned for the request's context
    lres,           \* the response of the token login: status and cookie
    \* ---- LoadAccountsKeySet step by step, and a concurrent reader
    loadPc,         \* the statement LoadAccountsKeySet is at
    loadSet,        \* its local variable set
    loadErr,        \* the file of the last call and the error it returned
    seen,           \* the two cached key sets as a reader found them
    \* ---- package database: API keys
    staticAPIKeys,      \* the collection of API keys
    staticPubAPIKeys,   \* the collection of public API keys
    nextKey,        \* the next fresh document id and key
    apiPc,          \* per caller: its position inside PubAPIKeyCreate
    apiReq,         \* per caller inside PubAPIKeyCreate: its arguments
    apiOut,         \* the last finished database call and what it returned
    revoked,        \* history: the keys their owners have deleted
    \* ---- package api: the quota of a user
    dbUser,         \* the user's document in the database
    uploads,        \* per skylink: the user's pinned uploads of it
    reqPc,          \* per request: its position in the handler or in checkUserQuotas
    reqUser,        \* per request: u, the handler's copy of the user
    reqCancelled,   \* per request: its context has been cancelled
    quotaOut,       \* the last call that finished and what it gave
    stopped,        \* the process has shut down
    \* ---- package api: the profile of a user and the session of a client
    billing,        \* per user: StripeID as stored in the database
    put,            \* per caller: its position inside userPUT and what it holds
    putOut,         \* the last userPUT that finished and its status
    jar,            \* the session cookie the client holds
    lreq            \* the last login or logout request

challengeVars == <<challenges, nextNonce, identities, arrived, vpc, vreq, vout,
                   accepted>>
tokenVars == <<AccountsJWKS, AccountsPublicJWKS, issued, wire, vres, fres, cres, lres>>
loadVars == <<loadPc, loadSet, loadErr, seen>>
keyVars == <<staticAPIKeys, staticPubAPIKeys, nextKey, apiPc, apiReq, apiOut,
            revoked>>
quotaVars == <<dbUser, uploads, reqPc, reqUser, reqCancelled, quotaOut, stopped>>
accountVars == <<billing, put, putOut, jar, lreq>>
restVars == <<loadVars, keyVars, quotaVars, accountVars>>
vars == <<now, challengeVars, tokenVars, restVars>>

(***************************************************************************)
(* The wall clock.                                                         *)
(***************************************************************************)
ClockInit == now = 0

\* TTL defines the lifetime of the JWT token in seconds
TTL == 720 * 3600
\* the lifetime of a token in clock ticks: the clock may jump by as much
JumpTicks == TTL * TicksPerSecond

\* time.Time.Unix(): the seconds of a clock reading, the fraction cut off
Unix(t) == t \div TicksPerSecond
\* the clock reading of a Unix time in seconds
FromUnix(sec) == sec * TicksPerSecond

(***************************************************************************)
(* Package jwt: the values it works on.                                    *)
(***************************************************************************)
\* JSON values, as a parsed token holds them (interface{} in Go)
JObj(fields) == [k |-> "obj", v |-> fields]
JStr(str) == [k |-> "str", v |-> str]
JNum(n) == [k |-> "num", v |-> n]
JBool(b) == [k |-> "bool", v |-> b]
JNull == [k |-> "null", v |-> 0]
\* a claim the token does not carry: t.Get returns !ok
NoClaim == [k |-> "absent", v |-> 0]
Has(fields, name) == name \in DOMAIN fields

\* a key set: the nil interface value, or a list of keys
NilSet == [nil |-> TRUE, keys |-> <<>>]
KeySet(keys) == [nil |-> FALSE, keys |-> keys]

\* the claims of a token, and a serialized (signed) token
NoClaims == [exp |-> 0, iat |-> 0, iss |-> "", sub |-> "", session |-> NoClaim]
NoSig == [kid |-> "", alg |-> "", mat |-> "", over |-> NoClaims]
NoBytes == [present |-> FALSE, parseable |-> FALSE, payload |-> NoClaims, sig |-> NoSig]

\* results not yet produced
NoIssue == [email |-> "", sub |-> "", jwks |-> NilSet,
            err |-> "not called", tk |-> NoClaims, bytes |-> NoBytes]
NoValidation == [err |-> "not called", token |-> NoClaims]
NoFields == [err |-> "not called", sub |-> "", email |-> ""]
NoCookie == [set |-> FALSE, value |-> NoBytes, expires |-> 0]
NoResponse == [status |-> 0, cookie |-> NoCookie]

\* the package after construction: both cached key sets are nil
TokenInit ==
    /\ AccountsJWKS = NilSet
    /\ AccountsPublicJWKS = NilSet
    /\ issued = NoIssue
    /\ wire = NoBytes
    /\ vres = NoValidation
    /\ fres = NoFields
    /\ cres = NoFields
    /\ lres = NoResponse

(***************************************************************************)
(* The key-set loader and the API-key collections before their first use.  *)
(***************************************************************************)
\* callers of the database that may run concurrently
Callers == 1..2
\* the zero ObjectID: user.ID.IsZero()
ZeroID == 0

NoLoad == [file |-> 0, err |-> "not called"]
NoCreate == [user |-> ZeroID, skylinks |-> <<>>]
NoCall == [op |-> "", err |-> "not called"]

\* no load is running and no reader has looked yet
LoadInit ==
    /\ loadPc = "idle"
    /\ loadSet = NilSet
    /\ loadErr = NoLoad
    /\ seen = [jwks |-> NilSet, pub |-> NilSet]

\* both collections empty, no call running
KeysInit ==
    /\ staticAPIKeys = {}
    /\ staticPubAPIKeys = {}
    /\ nextKey = 1
    /\ apiPc = [c \in Callers |-> "idle"]
    /\ apiReq = [c \in Callers |-> NoCreate]
    /\ apiOut = NoCall
    /\ revoked = {}

(***************************************************************************)
(* The quota of a user before the first request.                           *)
(***************************************************************************)
TierAnonymous == "anonymous"
TierFree == "free"
TierPremium == "premium"
Tiers == {TierAnonymous, TierFree, TierPremium}

\* the requests that the server handles concurrently
QuotaRequests == {"r1", "r2"}
\* the skylinks the user uploads, and the size of the skyfile of each
QuotaSkylinks == {"A", "B"}

\* a *database.User: nil, or the fields the quota looks at
User(tier, exceeded) == [nil |-> FALSE, Tier |-> tier, QuotaExceeded |-> exceeded]
NilUser == [nil |-> TRUE, Tier |-> TierAnonymous, QuotaExceeded |-> FALSE]
NoQuotaCall == [op |-> "", v |-> "not called"]

\* a user of the given tier who has uploaded nothing; no request is running
QuotaInitTier(tier) ==
    /\ dbUser = User(tier, FALSE)
    /\ uploads = [sl \in QuotaSkylinks |-> 0]
    /\ reqPc = [r \in QuotaRequests |-> "idle"]
    /\ reqUser = [r \in QuotaRequests |-> NilUser]
    /\ reqCancelled = [r \in QuotaRequests |-> FALSE]
    /\ quotaOut = NoQuotaCall
    /\ stopped = FALSE
\* userPOST creates users with TierFree
QuotaInit == QuotaInitTier(TierFree)

(***************************************************************************)
(* The profiles of the users and the session of a client before the first  *)
(* request.                                                                 *)
(***************************************************************************)
\* the users that set a Stripe customer id, and the ids they submit
BillingUsers == {"u1", "u2"}
StripeIDs == {"cus_1", "cus_2"}

NoPut == [pc |-> "idle", sub |-> "", StripeID |-> "", id |-> ""]
NoPutOut == [sub |-> "", status |-> 0]
NoLogin == [op |-> "", email |-> "", password |-> "", token |-> NoBytes]

\* no user has a Stripe customer id, no userPUT is running, the client has
\* no cookie and has sent nothing
AccountInit ==
    /\ billing = [u \in BillingUsers |-> ""]
    /\ put = [c \in Callers |-> NoPut]
    /\ putOut = NoPutOut
    /\ jar = NoCookie
    /\ lreq = NoLogin

(***************************************************************************)
(* ChallengeAuthenticator (spec section 4.4).  Every request is served by  *)
(* its own unit of work (spec section 5); the requests are numbered in the *)
(* order of their arrival.                                                  *)
(***************************************************************************)
\* the public keys whose holders ask for challenges
PubKeys == {"pk1"}
\* the keys a client may present or sign with: a holder's, or somebody else's
ClientKeys == PubKeys \cup {"pk2"}
Emails == {"a@x", "b@x"}
Purposes == {"login", "register"}
Requests == 1..MaxRequests
Nonces == 1..MaxNonce
\* a nonce no challenge ever carried (a client's guess)
NoNonce == 0
\* lifetime of a challenge, in ticks
ChallengeTTL == 1

NoRequest == [pubKey |-> "", purpose |-> "", nonce |-> NoNonce, email |-> ""]

\* the pending challenges of one (public key, purpose) pair
Pending(pk, purpose) ==
    {c \in challenges : c.pubKey = pk /\ c.purpose = purpose}

\* the nonces issued so far, and those a later CreateChallenge has replaced
Issued == 1..(nextNonce - 1)
Superseded == Issued \ {c.nonce : c \in challenges}

\* the bytes a client has to sign: purpose tag + nonce (+ email when registering)
ExpectedResponse(c, email) ==
    [purpose |-> c.purpose, nonce |-> c.nonce,
     email |-> IF c.purpose = "register" THEN email ELSE ""]

Sign(key, msg) == [key |-> key, msg |-> msg]
VerifySignature(sig, pk, msg) == sig.key = pk /\ sig.msg = msg

Expired(c, t) == t > c.issuedAt + ChallengeTTL

ChallengeInit ==
    /\ challenges = {}
    /\ nextNonce = 1
    /\ identities = {}
    /\ arrived = 0
    /\ vpc = [r \in Requests |-> "new"]
    /\ vreq = [r \in Requests |-> NoRequest]
    /\ vout = [r \in Requests |-> "none"]
    /\ accepted = [n \in Nonces |-> [count |-> 0, req |-> NoRequest]]

Tick ==
    /\ \/ now < MaxTicks
       \/ now >= JumpTicks /\ now < JumpTicks + MaxTicks
    /\ now' = now + 1
    /\ UNCHANGED <<challengeVars, tokenVars, restVars>>

\* mutant: the new record is added and the pair's old one stays
StoreChallengeKeepOld(pk, purpose, c) == challenges \cup {c}

\* the store write of CreateChallenge: the new record replaces the pair's old one
StoreChallenge(pk, purpose, c) == (challenges \ Pending(pk, purpose)) \cup {c}

CreateChallenge(pk, purpose) ==
    /\ nextNonce <= MaxNonce
    /\ challenges' = StoreChallenge(pk, purpose,
                        [pubKey |-> pk, purpose |-> purpose, nonce |-> nextNonce,
                         issuedAt |-> now, consumed |-> FALSE])
    /\ nextNonce' = nextNonce + 1
    /\ UNCHANGED <<restVars, tokenVars, now, identities, arrived, vpc, vreq, vout, accepted>>

\* mutant: the consumed flag is not looked at
VerifyChecksSkipConsumed(c, resp, sig, pk, email, t) ==
    IF Expired(c, t) THEN "Expired"
    ELSE IF resp # ExpectedResponse(c, email) THEN "SignatureInvalid"
    ELSE IF ~VerifySignature(sig, pk, resp) THEN "SignatureInvalid"
    ELSE "pass"

\* the checks of VerifyResponse that precede the consumption, on the challenge c
\* found for the request, at time t
VerifyChecks(c, resp, sig, pk, email, t) ==
    IF Expired(c, t) THEN "Expired"
    ELSE IF c.consumed THEN "AlreadyConsumed"
    ELSE IF resp # ExpectedResponse(c, email) THEN "SignatureInvalid"
    ELSE IF ~VerifySignature(sig, pk, resp) THEN "SignatureInvalid"
    ELSE "pass"

\* the verdicts the first step of VerifyResponse can reach in the current state
LookupVerdicts(resp, sig, pk, email) ==
    IF Pending(pk, resp.purpose) = {} THEN {"NotFound"}
    ELSE {VerifyChecks(c, resp, sig, pk, email, now) : c \in Pending(pk, resp.purpose)}

\* VerifyResponse, first step: look the challenge up and check the response
VerifyLookup(r, resp, sig, pk, email) ==
    /\ r = arrived + 1
    /\ vpc[r] = "new"
    /\ \E verdict \in LookupVerdicts(resp, sig, pk, email) :
         IF verdict = "pass"
         THEN /\ vpc' = [vpc EXCEPT ![r] = "consume"]
              /\ arrived' = r
              /\ vreq' = [vreq EXCEPT ![r] =
                            [pubKey |-> pk, purpose |-> resp.purpose,
                             nonce |-> resp.nonce, email |-> resp.email]]
              /\ UNCHANGED vout
         \* a refused request changes nothing: its verdict is its response
         ELSE UNCHANGED <<arrived, vpc, vreq, vout>>
    /\ UNCHANGED <<restVars, tokenVars, now, challenges, nextNonce, identities, accepted>>

\* mutant: the consumption does not compare the consumed flag
ConsumableNoCompare(req) ==
    {c \in Pending(req.pubKey, req.purpose) : c.nonce = req.nonce}

\* the challenges a consume of the request may take: the stored, still
\* unconsumed challenge with the request's nonce
Consumable(req) ==
    {c \in Pending(req.pubKey, req.purpose) :
        c.nonce = req.nonce /\ ~c.consumed}

\* VerifyResponse, second step: the atomic compare-and-consume
VerifyConsume(r) ==
    /\ vpc[r] = "consume"
    /\ IF Consumable(vreq[r]) = {}
       THEN /\ vpc' = [vpc EXCEPT ![r] = "done"]
            /\ vout' = [vout EXCEPT ![r] = "AlreadyConsumed"]
            /\ vreq' = [vreq EXCEPT ![r] = NoRequest]
            /\ UNCHANGED <<challenges, accepted>>
       ELSE /\ challenges' =
                  (challenges \ Consumable(vreq[r])) \cup
                  {[c EXCEPT !.consumed = TRUE] : c \in Consumable(vreq[r])}
            /\ accepted' = [accepted EXCEPT ![vreq[r].nonce] =
                              [count |-> @.count + 1, req |-> vreq[r]]]
            /\ vpc' = [vpc EXCEPT ![r] = "finish"]
            /\ UNCHANGED <<vout, vreq>>
    /\ UNCHANGED <<restVars, tokenVars, now, nextNonce, identities, arrived>>

Owners(pk) == {i \in identities : i.pubKey = pk}
WithEmail(e) == {i \in identities : i.email = e}

\* mutant: the store has no unique constraint on the public key
RegisterOutcomeNoKeyConstraint(pk, email) ==
    IF WithEmail(email) # {} THEN "EmailAlreadyUsed" ELSE "OK"

\* the store insert of a registration, under the store's unique constraints
RegisterOutcome(pk, email) ==
    IF Owners(pk) # {} THEN "PublicKeyAlreadyRegistered"
    ELSE IF WithEmail(email) # {} THEN "EmailAlreadyUsed"
    ELSE "OK"

\* VerifyResponse, last step: resolve the login or create the identity
VerifyFinish(r) ==
    /\ vpc[r] = "finish"
    /\ vpc' = [vpc EXCEPT ![r] = "done"]
    /\ vreq' = [vreq EXCEPT ![r] = NoRequest]
    /\ IF vreq[r].purpose = "login"
       THEN /\ vout' = [vout EXCEPT ![r] =
                         IF Owners(vreq[r].pubKey) = {} THEN "NotFound" ELSE "OK"]
            /\ UNCHANGED identities
       ELSE LET res == RegisterOutcome(vreq[r].pubKey, vreq[r].email)
            IN /\ vout' = [vout EXCEPT ![r] = res]
               /\ identities' =
                    IF res = "OK"
                    THEN identities \cup
                         {[sub |-> Cardinality(identities) + 1,
                           pubKey |-> vreq[r].pubKey, email |-> vreq[r].email]}
                    ELSE identities
    /\ UNCHANGED <<restVars, tokenVars, now, challenges, nextNonce, arrived, accepted>>

\* the responses a client may present
Responses ==
    {[purpose |-> "login", nonce |-> n, email |-> ""] : n \in Issued \cup {NoNonce}}
    \cup
    {[purpose |-> "register", nonce |-> n, email |-> e] :
        n \in Issued \cup {NoNonce}, e \in Emails}

NextChallenge ==
    \/ Tick
    \/ \E pk \in PubKeys, purpose \in Purposes : CreateChallenge(pk, purpose)
    \/ \E r \in Requests, resp \in Responses, signer \in ClientKeys, pk \in ClientKeys :
          VerifyLookup(r, resp, Sign(signer, resp), pk, resp.email)
    \/ \E r \in Requests : VerifyConsume(r)
    \/ \E r \in Requests : VerifyFinish(r)

InitChallenge ==
    ClockInit /\ AccountInit /\ ChallengeInit /\ TokenInit /\ LoadInit /\ KeysInit /\ QuotaInit
SpecChallenge == InitChallenge /\ [][NextChallenge]_vars

(***************************************************************************)
(* Claims about the ChallengeAuthenticator, checked under SpecChallenge.   *)
(***************************************************************************)
\* the requests a client can make with nonce n: any key, any signer, any
\* purpose and email
ClientRequests(n) ==
    {[pubKey |-> pk, signer |-> k, resp |-> resp] :
        pk \in ClientKeys, k \in ClientKeys, resp \in {x \in Responses : x.nonce = n}}

\* what VerifyResponse answers to request q in the current state
VerdictsOf(q) ==
    LookupVerdicts(q.resp, Sign(q.signer, q.resp), q.pubKey, q.resp.email)

\* the request that was accepted for nonce n, presented once more
Replay(n) ==
    LET a == accepted[n].req
    IN [pubKey |-> a.pubKey, signer |-> a.pubKey,
        resp |-> [purpose |-> a.purpose, nonce |-> a.nonce, email |-> a.email]]

\* the stored challenge that carries nonce n, if any
Stored(n) == {c \in challenges : c.nonce = n}

C2_AtMostOneConsumes ==
    [][\A r \in Requests :
          (vpc[r] = "consume" /\ vpc'[r] # "consume") =>
             /\ accepted'[vreq[r].nonce].count <= 1
             /\ accepted[vreq[r].nonce].count >= 1 =>
                   /\ vpc'[r] = "done"
                   /\ vout'[r] = "AlreadyConsumed"
                   /\ accepted' = accepted
                   /\ challenges' = challenges
                   /\ identities' = identities]_vars

\* C2 witness: two requests passed the checks on the same challenge; one has
\* consumed it while the other still waits to consume.
C2_Witness ==
    \E r1, r2 \in Requests :
        /\ r1 # r2
        /\ vpc[r1] = "finish"
        /\ vpc[r2] = "consume"
        /\ vreq[r1] = vreq[r2]

\* C3: no two identities hold the same public key, and a registration that
\* finds its public key registered ends with PublicKeyAlreadyRegistered and
\* leaves the identity store as it was.
C3_PublicKeyUnique ==
    /\ [](\A i, j \in identities : i.pubKey = j.pubKey => i = j)
    /\ [][\A r \in Requests :
            (/\ vpc[r] = "finish"
             /\ vpc'[r] = "done"
             /\ vreq[r].purpose = "register"
             /\ Owners(vreq[r].pubKey) # {})
            => /\ vout'[r] = "PublicKeyAlreadyRegistered"
               /\ identities' = identities]_vars

\* C3 witness: a registration on a registered public key has been refused.
C3_Witness ==
    /\ Cardinality(identities) = 1
    /\ \E r \in Requests : vout[r] = "PublicKeyAlreadyRegistered"

\* C4: every (public key, purpose) pair has at most one stored challenge,
\* and a nonce that a later CreateChallenge has superseded is never accepted:
\* no response to it passes the checks and no request in flight consumes it.
C4_OnePendingPerPair ==
    /\ [](\A pk \in PubKeys, purpose \in Purposes :
             Cardinality(Pending(pk, purpose)) <= 1)
    /\ [](\A n \in Superseded :
             \A q \in ClientRequests(n) : "pass" \notin VerdictsOf(q))
    /\ [][\A n \in Superseded : accepted'[n] = accepted[n]]_vars

\* C4 witness: a correctly signed response passed the checks and its
\* challenge was superseded before the consumption.
C4_Witness ==
    \E r \in Requests : vpc[r] = "consume" /\ vreq[r].nonce \in Superseded

(***************************************************************************)
(* Package jwt: the key-set cache.                                         *)
(***************************************************************************)
\* jwa.SignatureAlgorithms(): the algorithms the library can sign with
SignatureAlgorithms == {"RS256", "ES256", "HS256"}

\* the keys a JWKS file may hold: kid and alg as written in the file, mat the
\* key material, priv whether the private half is there, derivable whether
\* the library can derive the public half
SigningKey == [kid |-> "k1", alg |-> "RS256", mat |-> "m1", priv |-> TRUE, derivable |-> TRUE]
VerifyOnlyKey == [SigningKey EXCEPT !.priv = FALSE]
NoAlgKey == [kid |-> "k2", alg |-> "", mat |-> "m2", priv |-> TRUE, derivable |-> TRUE]
OddKey == [kid |-> "k3", alg |-> "RS256", mat |-> "m3", priv |-> TRUE, derivable |-> FALSE]

\* what may be found at AccountsJWKSFile
JWKSFiles ==
    << [readable |-> FALSE, parses |-> FALSE, keys |-> <<>>],
       [readable |-> TRUE, parses |-> FALSE, keys |-> <<>>],
       [readable |-> TRUE, parses |-> TRUE, keys |-> <<>>],
       [readable |-> TRUE, parses |-> TRUE, keys |-> <<SigningKey>>],
       [readable |-> TRUE, parses |-> TRUE, keys |-> <<VerifyOnlyKey>>],
       [readable |-> TRUE, parses |-> TRUE, keys |-> <<NoAlgKey>>],
       [readable |-> TRUE, parses |-> TRUE, keys |-> <<OddKey>>] >>

\* jwk.PublicSetOf: the public half of every key, or an error
PublicSetOf(set) ==
    IF \E i \in DOMAIN set.keys : ~set.keys[i].derivable
    THEN [err |-> "failed to derive", set |-> NilSet]
    ELSE [err |-> "none",
          set |-> KeySet([i \in DOMAIN set.keys |-> [set.keys[i] EXCEPT !.priv = FALSE]])]

\* LoadAccountsKeySet: the two cached sets after the call, and its error
LoadAccountsKeySet(file, jwks, pub) ==
    IF ~file.readable
    THEN [err |-> "read", jwks |-> jwks, pub |-> pub]
    ELSE IF ~file.parses
    THEN [err |-> "parse", jwks |-> jwks, pub |-> pub]
    ELSE LET set == KeySet(file.keys)
             p == PublicSetOf(set)
         IN  IF p.err # "none"
             THEN [err |-> p.err, jwks |-> NilSet, pub |-> NilSet]
             ELSE [err |-> "none", jwks |-> set, pub |-> p.set]

\* signatureAlgoAndKey: the algorithm and key defined by the current JWKS.
\* AccountsJWKS.Get on the nil interface value is a nil dereference.
signatureAlgoAndKey(jwks) ==
    IF jwks.nil
    THEN [err |-> "panic", alg |-> "", key |-> SigningKey]
    ELSE IF Len(jwks.keys) = 0
    THEN [err |-> "JWKS is empty", alg |-> "", key |-> SigningKey]
    ELSE LET key == jwks.keys[1]
         IN  IF key.alg \notin SignatureAlgorithms
             THEN [err |-> "failed to determine signature algorithm",
                   alg |-> "", key |-> key]
             ELSE [err |-> "none", alg |-> key.alg, key |-> key]

(***************************************************************************)
(* Package jwt: building, signing and parsing tokens.                      *)
(***************************************************************************)
\* PortalName is the issuing service
PortalName == "https://siasky.net"

\* the session struct of tokenForUser and its JSON encoding (the json tags
\* of tokenSession, tokenIdentity and tokenTraits)
tokenSession(emailAddr) ==
    [Active |-> TRUE, Identity |-> [Traits |-> [Email |-> emailAddr]]]
MarshalSession(session) ==
    JObj([active |-> JBool(session.Active),
          identity |-> JObj([traits |->
                        JObj([email |-> JStr(session.Identity.Traits.Email)])])])

\* tokenForUser with the arguments the wrong way round
tokenForUserSwapped(emailAddr, sub, t) ==
    IF emailAddr = "" \/ sub = ""
    THEN [err |-> "email and sub cannot be empty", t |-> NoClaims]
    ELSE [err |-> "none",
          t |-> [exp |-> Unix(t) + TTL, iat |-> Unix(t), iss |-> PortalName,
                 sub |-> emailAddr, session |-> tokenSession(sub)]]

\* tokenForUser without its check of the arguments
tokenForUserUnchecked(emailAddr, sub, t) ==
    [err |-> "none",
     t |-> [exp |-> Unix(t) + TTL, iat |-> Unix(t), iss |-> PortalName,
            sub |-> sub, session |-> tokenSession(emailAddr)]]

\* tokenForUser puts together an unsigned token; t is the clock reading
tokenForUser(emailAddr, sub, t) ==
    IF emailAddr = "" \/ sub = ""
    THEN [err |-> "email and sub cannot be empty", t |-> NoClaims]
    ELSE [err |-> "none",
          t |-> [exp |-> Unix(t) + TTL, iat |-> Unix(t), iss |-> PortalName,
                 sub |-> sub, session |-> tokenSession(emailAddr)]]

\* jwt.Sign of claims already in their JSON form
SignClaims(payload, sigAlgo, key) ==
    [present |-> TRUE, parseable |-> TRUE, payload |-> payload,
     sig |-> [kid |-> key.kid, alg |-> sigAlgo, mat |-> key.mat, over |-> payload]]

\* jwt.Sign: serializes the claims and signs them; needs the private half
jwtSign(t, sigAlgo, key) ==
    IF ~key.priv
    THEN [err |-> "failed to sign token", bytes |-> NoBytes]
    ELSE [err |-> "none",
          bytes |-> SignClaims([t EXCEPT !.session = MarshalSession(t.session)],
                               sigAlgo, key)]

\* jwt.Parse without a key set: decodes the payload, verifies nothing
jwtParse(bytes) ==
    IF ~bytes.present \/ ~bytes.parseable
    THEN [err |-> "failed to parse", token |-> NoClaims]
    ELSE [err |-> "none", token |-> bytes.payload]

\* the signature of a serialized token verifies against a key of the set
VerifyJWS(bytes, set) ==
    /\ ~set.nil
    /\ \E i \in DOMAIN set.keys :
          /\ set.keys[i].kid = bytes.sig.kid
          /\ set.keys[i].alg = bytes.sig.alg
          /\ set.keys[i].mat = bytes.sig.mat
    /\ bytes.sig.over = bytes.payload

\* jwt.Parse with jwt.WithKeySet: decodes the payload and verifies the signature
jwtParseWithKeySet(bytes, set) ==
    IF jwtParse(bytes).err # "none"
    THEN jwtParse(bytes)
    ELSE IF ~VerifyJWS(bytes, set)
    THEN [err |-> "failed to verify", token |-> NoClaims]
    ELSE jwtParse(bytes)

\* token.Expiration(): the clock reading of the exp claim
Expiration(token) == FromUnix(token.exp)

IssueFailed(err) == [err |-> err, tk |-> NoClaims, bytes |-> NoBytes]

\* TokenForUser creates a serialized JWT token for the given user
TokenForUser(email, sub, jwks, t) ==
    LET sk == signatureAlgoAndKey(jwks)
    IN  IF sk.err # "none"
        THEN IssueFailed(sk.err)
        ELSE LET built == tokenForUser(email, sub, t)
             IN  IF built.err # "none"
                 THEN IssueFailed(built.err)
                 ELSE LET signed == jwtSign(built.t, sk.alg, sk.key)
                      IN  IF signed.err # "none"
                          THEN IssueFailed("failed to sign token")
                          ELSE [err |-> "none",
                                tk |-> jwtParse(signed.bytes).token,
                                bytes |-> signed.bytes]

(***************************************************************************)
(* Package jwt: validating tokens and reading their fields.                *)
(***************************************************************************)
ErrTokenExpired == "token expired"

\* ValidateToken looking at the expiry of the payload before the signature
ValidateTokenExpiryFirst(bytes, pub, t) ==
    IF jwtParse(bytes).err = "none" /\ Expiration(jwtParse(bytes).token) < t
    THEN [err |-> ErrTokenExpired, token |-> NoClaims]
    ELSE [err |-> jwtParseWithKeySet(bytes, pub).err,
          token |-> jwtParseWithKeySet(bytes, pub).token]

\* ValidateToken refusing a token from the very instant of its expiry
ValidateTokenNotStrict(bytes, pub, t) ==
    LET parsed == jwtParseWithKeySet(bytes, pub)
    IN  IF parsed.err # "none"
        THEN [err |-> parsed.err, token |-> NoClaims]
        ELSE IF Expiration(parsed.token) <= t
        THEN [err |-> ErrTokenExpired, token |-> NoClaims]
        ELSE [err |-> "none", token |-> parsed.token]

\* ValidateToken that accepts a token only while the client's session cookie
\* holds it
ValidateTokenOfCookie(bytes, pub, t) ==
    LET parsed == jwtParseWithKeySet(bytes, pub)
    IN  IF parsed.err # "none"
        THEN [err |-> parsed.err, token |-> NoClaims]
        ELSE IF Expiration(parsed.token) < t \/ jar.value # bytes
        THEN [err |-> ErrTokenExpired, token |-> NoClaims]
        ELSE [err |-> "none", token |-> parsed.token]

\* ValidateToken verifies the signature and the expiration time of a token;
\* t is the clock reading
ValidateToken(bytes, pub, t) ==
    LET parsed == jwtParseWithKeySet(bytes, pub)
    IN  IF parsed.err # "none"
        THEN [err |-> parsed.err, token |-> NoClaims]
        ELSE IF Expiration(parsed.token) < t
        THEN [err |-> ErrTokenExpired, token |-> NoClaims]
        ELSE [err |-> "none", token |-> parsed.token]

FieldsFailed(err) == [err |-> err, sub |-> "", email |-> ""]

\* TokenFields extracts sub and email from a parsed token.  A type assertion
\* on a value of another type, or on a missing map entry, panics.
TokenFields(t) ==
    IF t.sub = ""
    THEN FieldsFailed("sub field missing")
    ELSE IF t.session.k = "absent"
    THEN FieldsFailed("session field missing")
    ELSE IF t.session.k # "obj"
    THEN FieldsFailed("panic")
    ELSE LET session == t.session.v
         IN  IF ~Has(session, "identity") \/ session.identity.k # "obj"
             THEN FieldsFailed("panic")
             ELSE LET identity == session.identity.v
                  IN  IF ~Has(identity, "traits") \/ identity.traits.k # "obj"
                      THEN FieldsFailed("panic")
                      ELSE LET traits == identity.traits.v
                           IN  IF ~Has(traits, "email") \/ traits.email.k # "str"
                               THEN FieldsFailed("panic")
                               ELSE [err |-> "none", sub |-> t.sub,
                                     email |-> traits.email.v]

\* a request context with and without a token
ContextWithToken(token) == [hasToken |-> TRUE, token |-> token]
EmptyContext == [hasToken |-> FALSE, token |-> NoClaims]

\* TokenFromContext: TokenFields of the context's token; the deferred
\* recover turns every panic into an error
TokenFromContext(ctx) ==
    IF ~ctx.hasToken
    THEN FieldsFailed("failed to parse token from context")
    ELSE IF TokenFields(ctx.token).err = "panic"
    THEN FieldsFailed("failed to parse token from context")
    ELSE TokenFields(ctx.token)

(***************************************************************************)
(* Package api: logging in with a token.                                   *)
(***************************************************************************)
\* writeCookie: the login cookie wraps the serialized token
writeCookie(value, expires) == [set |-> TRUE, value |-> value, expires |-> expires]

\* loginPOSTToken that gives the cookie a full lifetime from the login on
loginPOSTTokenFreshCookie(tokenStr, v, t, cookieOK) ==
    IF ~tokenStr.present
    THEN [status |-> 401, cookie |-> NoCookie]
    ELSE IF v.err # "none"
    THEN [status |-> 401, cookie |-> NoCookie]
    ELSE IF t > Expiration(v.token)
    THEN [status |-> 401, cookie |-> NoCookie]
    ELSE IF ~cookieOK
    THEN [status |-> 500, cookie |-> NoCookie]
    ELSE [status |-> 200, cookie |-> writeCookie(tokenStr, Unix(t) + TTL)]

\* loginPOSTToken after its call of ValidateToken: v is what ValidateToken
\* returned, t the clock reading, cookieOK whether the cookie could be encoded
loginPOSTToken(tokenStr, v, t, cookieOK) ==
    IF ~tokenStr.present
    THEN [status |-> 401, cookie |-> NoCookie]
    ELSE IF v.err # "none"
    THEN [status |-> 401, cookie |-> NoCookie]
    ELSE IF t > Expiration(v.token)
    THEN [status |-> 401, cookie |-> NoCookie]
    ELSE IF ~cookieOK
    THEN [status |-> 500, cookie |-> NoCookie]
    ELSE [status |-> 200, cookie |-> writeCookie(tokenStr, v.token.exp)]

\* loginUser: tokenForUserResult is what TokenForUser returned, cookieOK
\* whether the cookie could be encoded
loginUser(tokenForUserResult, cookieOK) ==
    IF tokenForUserResult.err # "none"
    THEN [status |-> 500, cookie |-> NoCookie]
    ELSE IF ~cookieOK
    THEN [status |-> 500, cookie |-> NoCookie]
    ELSE [status |-> 200,
          cookie |-> writeCookie(tokenForUserResult.bytes,
                                 Unix(Expiration(tokenForUserResult.tk)))]

(***************************************************************************)
(* The tokens that reach the service.                                      *)
(***************************************************************************)
Subs == {"", "u1"}
TokenEmails == {"", "a@x"}
\* an expiry beyond, and one before, every clock reading of a behaviour
FarExp == 2 * TTL
PastExp == 0 - TTL
\* the expiry claims of externally issued tokens
ExternalExps == {Unix(t) : t \in 0..MaxTicks} \cup {PastExp, FarExp}

\* the session claim of a token: absent, of the wrong type at each level of
\* nesting, without an email, and as the service itself writes it
SessionShapes ==
    << NoClaim,
       JStr("x"),
       JObj(<<>>),
       JObj([identity |-> JNull]),
       JObj([identity |-> JObj(<<>>)]),
       JObj([identity |-> JObj([traits |-> JNull])]),
       JObj([identity |-> JObj([traits |-> JObj(<<>>)])]),
       JObj([identity |-> JObj([traits |-> JObj([email |-> JNum(1)])])]),
       JObj([identity |-> JObj([traits |-> JObj([email |-> JStr("")])])]),
       MarshalSession(tokenSession("a@x")) >>
WellFormed == Len(SessionShapes)

ExternalClaims(sub, exp, i) ==
    [exp |-> exp, iat |-> 0, iss |-> PortalName, sub |-> sub,
     session |-> SessionShapes[i]]

\* a token whose signature bytes were altered, and one whose payload was
\* altered under the old signature
CorruptSignature(bytes) == [bytes EXCEPT !.sig.mat = "corrupt"]
ExtendLifetime(bytes) == [bytes EXCEPT !.payload.exp = FarExp]
\* a string that is no token at all
Garbage == [NoBytes EXCEPT !.present = TRUE]

(***************************************************************************)
(* Actions of the token state machine.                                     *)
(***************************************************************************)
Jump ==
    /\ now <= MaxTicks
    /\ now' = now + JumpTicks
    /\ UNCHANGED <<challengeVars, tokenVars, restVars>>

CallLoadAccountsKeySet(file) ==
    LET r == LoadAccountsKeySet(file, AccountsJWKS, AccountsPublicJWKS)
    IN  /\ AccountsJWKS' = r.jwks
        /\ AccountsPublicJWKS' = r.pub
        /\ UNCHANGED <<restVars, now, challengeVars, issued, wire, vres, fres, cres, lres>>

\* a login request: TokenForUser is called for the user; the request that
\* was being served before is over
CallTokenForUser(email, sub) ==
    LET r == TokenForUser(email, sub, AccountsJWKS, now)
    IN  /\ issued' = [email |-> email, sub |-> sub, jwks |-> AccountsJWKS,
                      err |-> r.err, tk |-> r.tk, bytes |-> r.bytes]
        /\ wire' = NoBytes
        /\ vres' = NoValidation
        /\ fres' = NoFields
        /\ cres' = NoFields
        /\ lres' = NoResponse
        /\ UNCHANGED <<restVars, now, challengeVars, AccountsJWKS, AccountsPublicJWKS>>

\* a login with credentials, from loginUser on: the token is issued and
\* wrapped into the cookie
CallLoginUser(email, sub, cookieOK) ==
    LET r == TokenForUser(email, sub, AccountsJWKS, now)
    IN  /\ issued' = [email |-> email, sub |-> sub, jwks |-> AccountsJWKS,
                      err |-> r.err, tk |-> r.tk, bytes |-> r.bytes]
        /\ wire' = NoBytes
        /\ vres' = NoValidation
        /\ fres' = NoFields
        /\ cres' = NoFields
        /\ lres' = loginUser(r, cookieOK)
        /\ UNCHANGED <<restVars, now, challengeVars, AccountsJWKS, AccountsPublicJWKS>>

\* a new request arrives with the token bytes: nothing is computed for it yet
Present(bytes) ==
    /\ wire' = bytes
    /\ vres' = NoValidation
    /\ fres' = NoFields
    /\ cres' = NoFields
    /\ lres' = NoResponse
    /\ UNCHANGED <<restVars, now, challengeVars, AccountsJWKS, AccountsPublicJWKS>>

\* the client presents the token the service issued to it
PresentIssued ==
    /\ issued.err = "none"
    /\ Present(issued.bytes)
    /\ UNCHANGED issued

\* a client presents a token of the external issuer, which signs with the
\* signing key
PresentExternal(sub, exp, i) ==
    /\ Present(SignClaims(ExternalClaims(sub, exp, i), SigningKey.alg, SigningKey))
    /\ issued' = NoIssue

\* the client presents its token altered, or a string that is no token
PresentTampered ==
    /\ wire.present
    /\ \E bytes \in {CorruptSignature(wire), ExtendLifetime(wire), Garbage} :
          Present(bytes)
    /\ UNCHANGED issued

CallValidateToken ==
    /\ wire.present
    /\ vres.err = "not called"
    /\ vres' = ValidateToken(wire, AccountsPublicJWKS, now)
    /\ UNCHANGED <<restVars, now, challengeVars, AccountsJWKS, AccountsPublicJWKS, issued,
                   wire, fres, cres, lres>>

\* a handler behind the validating middleware reads the identity, through
\* both entry points
ExtractIdentity ==
    /\ vres.err = "none"
    /\ fres.err = "not called"
    /\ fres' = TokenFields(vres.token)
    /\ cres' = TokenFromContext(ContextWithToken(vres.token))
    /\ UNCHANGED <<restVars, now, challengeVars, AccountsJWKS, AccountsPublicJWKS, issued,
                   wire, vres, lres>>

\* a handler reads the identity of a request that carries no valid token
ExtractAnonymous ==
    /\ vres.err \notin {"none", "not called"}
    /\ cres.err = "not called"
    /\ cres' = TokenFromContext(EmptyContext)
    /\ UNCHANGED <<restVars, now, challengeVars, AccountsJWKS, AccountsPublicJWKS, issued,
                   wire, vres, fres, lres>>

\* loginPOSTToken from its second clock reading on; its call of ValidateToken
\* is CallValidateToken
LoginRespond(cookieOK) ==
    /\ lres.status = 0
    /\ ~wire.present \/ vres.err # "not called"
    /\ lres' = loginPOSTToken(wire, vres, now, cookieOK)
    /\ UNCHANGED <<restVars, now, challengeVars, AccountsJWKS, AccountsPublicJWKS, issued,
                   wire, vres, fres, cres>>

NextToken ==
    \/ Tick
    \/ Jump
    \/ \E f \in 1..Len(JWKSFiles) : CallLoadAccountsKeySet(JWKSFiles[f])
    \/ \E email \in TokenEmails, sub \in Subs : CallTokenForUser(email, sub)
    \/ \E email \in TokenEmails, sub \in Subs, cookieOK \in BOOLEAN :
          CallLoginUser(email, sub, cookieOK)
    \/ PresentIssued
    \/ \E i \in 1..Len(SessionShapes) : PresentExternal("u1", FarExp, i)
    \/ \E sub \in Subs, exp \in ExternalExps : PresentExternal(sub, exp, WellFormed)
    \/ PresentTampered
    \/ CallValidateToken
    \/ ExtractIdentity
    \/ ExtractAnonymous
    \/ \E cookieOK \in BOOLEAN : LoginRespond(cookieOK)

InitToken ==
    ClockInit /\ AccountInit /\ ChallengeInit /\ TokenInit /\ LoadInit /\ KeysInit /\ QuotaInit
SpecToken == InitToken /\ [][NextToken]_vars

(***************************************************************************)
(* Claims about the tokens, checked under SpecToken.                       *)
(***************************************************************************)
\* the errors of ValidateToken that mean Unauthenticated
Unauthenticated == {"failed to parse", "failed to verify"}
\* the error of TokenForUser that means InvalidIdentity
InvalidIdentity == "email and sub cannot be empty"

\* the request carries, unchanged, the token TokenForUser returned
RoundTrip == issued.err = "none" /\ wire = issued.bytes

\* C5: round trip.  A token issued for a non-empty sub and email, validated
\* before its expiry against the verification set derived from the set that
\* signed it, is accepted with the claims it was issued with, and reading the
\* identity from it returns exactly that sub and that email.
C5_RoundTrip ==
    /\ [](RoundTrip => issued.sub # "" /\ issued.email # "")
    /\ [][(/\ CallValidateToken
           /\ RoundTrip
           /\ AccountsPublicJWKS = PublicSetOf(issued.jwks).set
           /\ now <= Expiration(issued.tk))
          => vres'.err = "none" /\ vres'.token = issued.tk]_vars
    /\ [](RoundTrip /\ fres.err # "not called"
          => /\ fres = [err |-> "none", sub |-> issued.sub, email |-> issued.email]
             /\ cres = fres)

C5_Witness ==
    /\ RoundTrip
    /\ fres = [err |-> "none", sub |-> "u1", email |-> "a@x"]
    /\ cres = fres
    /\ now = Expiration(issued.tk)

\* C6: ValidateToken checks the signature before the expiry.  A token whose
\* signature does not verify fails Unauthenticated, never Expired, whatever
\* its exp claim; a token whose signature verifies and whose exp is in the
\* past fails Expired.
C6_SignatureBeforeExpiry ==
    [][CallValidateToken
       => /\ ~VerifyJWS(wire, AccountsPublicJWKS) => vres'.err \in Unauthenticated
          /\ VerifyJWS(wire, AccountsPublicJWKS) /\ Expiration(wire.payload) < now
                => vres'.err = ErrTokenExpired]_vars

\* a token with a corrupted signature and an exp long past was refused
C6_Witness ==
    /\ wire.sig.mat = "corrupt"
    /\ wire.sig.over = wire.payload
    /\ wire.payload.exp = PastExp
    /\ VerifyJWS([wire EXCEPT !.sig.mat = SigningKey.mat], AccountsPublicJWKS)
    /\ vres.err \in Unauthenticated

\* C7: the expiry test is strict.  A correctly signed token is refused as
\* Expired exactly when its exp is strictly before the clock reading, and the
\* token login, which reads the clock again, refuses it exactly when the
\* clock reading is strictly after its exp: with exp equal to the clock
\* reading both accept.
C7_ExpiryStrict ==
    /\ [][CallValidateToken /\ VerifyJWS(wire, AccountsPublicJWKS)
          => /\ vres'.err = ErrTokenExpired <=> Expiration(wire.payload) < now
             /\ vres'.err = "none" <=> Expiration(wire.payload) >= now]_vars
    /\ [][LoginRespond(TRUE) /\ vres.err = "none"
          => /\ lres'.status = 200 <=> now <= Expiration(vres.token)
             /\ lres'.status = 401 <=> now > Expiration(vres.token)]_vars

\* the clock has not moved, and a token that expires at this very instant was
\* validated and logged in
C7_Witness ==
    /\ now = 0
    /\ wire.present
    /\ Expiration(wire.payload) = now
    /\ vres.err = "none"
    /\ lres.status = 200
    /\ lres.cookie.set
    /\ lres.cookie.expires = wire.payload.exp

\* a session claim that is there but not of the shape session.identity.traits
MalformedSession(session) ==
    /\ session.k # "absent"
    /\ \/ session.k # "obj"
       \/ ~Has(session.v, "identity")
       \/ session.v.identity.k # "obj"
       \/ ~Has(session.v.identity.v, "traits")
       \/ session.v.identity.v.traits.k # "obj"

\* a session claim of the right shape whose traits carry no email
EmailMissing(session) ==
    /\ session.k = "obj"
    /\ Has(session.v, "identity")
    /\ session.v.identity.k = "obj"
    /\ Has(session.v.identity.v, "traits")
    /\ session.v.identity.v.traits.k = "obj"
    /\ ~Has(session.v.identity.v.traits.v, "email")

\* the identity of the validated token has been read
Extracted == vres.err = "none" /\ fres.err # "not called" /\ vres.token.sub # ""

\* C8: reading the identity from a token whose session claim is present but
\* malformed returns an error value through every entry point (TokenFields
\* and TokenFromContext); it never panics and never succeeds.
C8_MalformedSessionIsError ==
    Extracted /\ MalformedSession(vres.token.session)
        => /\ fres.err \notin {"none", "panic"}
           /\ cres.err \notin {"none", "panic"}

\* C9: reading the identity from a token with a non-empty sub and a
\* well-shaped session whose traits carry no email succeeds, through every
\* entry point, with the sub and the empty string as email.
C9_MissingEmailTolerated ==
    Extracted /\ EmailMissing(vres.token.session)
        => /\ fres = [err |-> "none", sub |-> vres.token.sub, email |-> ""]
           /\ cres = [err |-> "none", sub |-> vres.token.sub, email |-> ""]

\* TokenForUser was called with an empty sub or an empty email
EmptyIdentity ==
    issued.err # "not called" /\ (issued.sub = "" \/ issued.email = "")

\* C10 as stated: TokenForUser called with an empty sub or an empty email
\* fails with InvalidIdentity and returns no token.
C10_EmptyIdentityIsInvalidIdentity ==
    EmptyIdentity
        => issued.err = InvalidIdentity /\ issued.tk = NoClaims /\ issued.bytes = NoBytes

\* C10 amended: TokenForUser called with an empty sub or an empty email
\* fails and returns no token; the failure is InvalidIdentity whenever the
\* cached key set yields a signing key with a supported algorithm.
C10_EmptyIdentityRejected ==
    EmptyIdentity
        => /\ issued.err # "none"
           /\ issued.tk = NoClaims
           /\ issued.bytes = NoBytes
           /\ signatureAlgoAndKey(issued.jwks).err = "none"
                 => issued.err = InvalidIdentity

C10_Witness ==
    /\ EmptyIdentity
    /\ signatureAlgoAndKey(issued.jwks).err = "none"
    /\ issued.err = InvalidIdentity

(***************************************************************************)
(* LoadAccountsKeySet statement by statement.  The two cached key sets are *)
(* package variables without a lock: a reader may run between any two      *)
(* statements of a load.                                                   *)
(***************************************************************************)
\* ioutil.ReadFile and json.Unmarshal: on an error nothing is touched
LoadRead(f) ==
    /\ loadPc = "idle"
    /\ IF ~JWKSFiles[f].readable
       THEN /\ loadErr' = [file |-> f, err |-> "read"]
            /\ UNCHANGED <<loadPc, loadSet>>
       ELSE IF ~JWKSFiles[f].parses
       THEN /\ loadErr' = [file |-> f, err |-> "parse"]
            /\ UNCHANGED <<loadPc, loadSet>>
       ELSE /\ loadErr' = [file |-> f, err |-> "running"]
            /\ loadSet' = KeySet(JWKSFiles[f].keys)
            /\ loadPc' = "cache"
    /\ UNCHANGED <<now, challengeVars, tokenVars, seen, keyVars,
                   quotaVars, accountVars>>

\* AccountsJWKS = set
LoadCacheJWKS ==
    /\ loadPc = "cache"
    /\ AccountsJWKS' = loadSet
    /\ loadPc' = "public"
    /\ UNCHANGED <<now, challengeVars, AccountsPublicJWKS, issued, wire, vres, fres,
                   cres, lres, loadSet, loadErr, seen, keyVars,
                   quotaVars, accountVars>>

\* AccountsPublicJWKS, err = jwk.PublicSetOf(AccountsJWKS)
LoadCachePublic ==
    /\ loadPc = "public"
    /\ AccountsPublicJWKS' = PublicSetOf(AccountsJWKS).set
    /\ IF PublicSetOf(AccountsJWKS).err # "none"
       THEN loadPc' = "clear" /\ UNCHANGED <<loadSet, loadErr>>
       ELSE /\ loadPc' = "idle"
            /\ loadSet' = NilSet
            /\ loadErr' = [loadErr EXCEPT !.err = "none"]
    /\ UNCHANGED <<now, challengeVars, AccountsJWKS, issued, wire, vres, fres,
                   cres, lres, seen, keyVars,
                   quotaVars, accountVars>>

\* AccountsJWKS = nil; AccountsPublicJWKS = nil; return err
LoadClear ==
    /\ loadPc = "clear"
    /\ AccountsJWKS' = NilSet
    /\ AccountsPublicJWKS' = NilSet
    /\ loadPc' = "idle"
    /\ loadSet' = NilSet
    /\ loadErr' = [loadErr EXCEPT !.err = "failed to derive"]
    /\ UNCHANGED <<now, challengeVars, issued, wire, vres, fres, cres, lres, seen,
                   keyVars,
                   quotaVars, accountVars>>

\* a reader (TokenForUser, ValidateToken) finds the two cached key sets
ReadKeySets ==
    /\ seen' = [jwks |-> AccountsJWKS, pub |-> AccountsPublicJWKS]
    /\ UNCHANGED <<now, challengeVars, tokenVars, loadPc, loadSet, loadErr, keyVars,
                   quotaVars, accountVars>>

NextKeySet ==
    \/ \E f \in 1..Len(JWKSFiles) : LoadRead(f)
    \/ LoadCacheJWKS
    \/ LoadCachePublic
    \/ LoadClear
    \/ ReadKeySets

InitKeySet ==
    ClockInit /\ AccountInit /\ ChallengeInit /\ TokenInit /\ LoadInit /\ KeysInit /\ QuotaInit
SpecKeySet == InitKeySet /\ [][NextKeySet]_vars

(***************************************************************************)
(* Claims about the key-set cache, checked under SpecKeySet.               *)
(***************************************************************************)
\* the pairs of cached key sets that no load, or one whole load, leaves
WholeLoads ==
    {[jwks |-> NilSet, pub |-> NilSet]} \cup
    {[jwks |-> LoadAccountsKeySet(JWKSFiles[f], NilSet, NilSet).jwks,
      pub |-> LoadAccountsKeySet(JWKSFiles[f], NilSet, NilSet).pub] :
        f \in 1..Len(JWKSFiles)}

\* C11: key-set reload is atomic.  What a reader finds is the signing set
\* and the verification set of one and the same load (or of no load), never
\* the signing set of one load with the verification set of another.
C11_ReloadAtomic == seen \in WholeLoads

\* the key set without keys
EmptySet == KeySet(<<>>)

\* C12: a load of a key set with zero keys returns an error and the empty
\* set is never installed as a cached key set.
C12_EmptySetRefused ==
    /\ (/\ loadErr.file \in 1..Len(JWKSFiles)
        /\ JWKSFiles[loadErr.file].parses
        /\ JWKSFiles[loadErr.file].keys = <<>>
        /\ loadErr.err # "running")
          => loadErr.err \notin {"none", "not called"}
    /\ AccountsJWKS # EmptySet
    /\ AccountsPublicJWKS # EmptySet

(***************************************************************************)
(* Package database: API keys and public API keys.  staticAPIKeys and      *)
(* staticPubAPIKeys are two collections of the document store; every       *)
(* single-document operation of the store is atomic.                       *)
(***************************************************************************)
\* the configured maximum of keys per user
MaxNumAPIKeysPerUser == 1
\* number of keys created in one behaviour
MaxKeys == 2
\* longest skylinks array a document grows to in one behaviour
MaxSkylinks == 3

\* users: two with an ID, and one whose ID is zero
Users == {ZeroID, 1, 2}
\* ValidSkylinkHash
ValidSkylinks == {"A", "B", "C"}
ValidSkylinkHash(str) == str \in ValidSkylinks
Range(seq) == {seq[i] : i \in DOMAIN seq}

ErrMaxNumAPIKeysExceeded == "maximum number of api keys exceeded"
ErrInvalidSkylink == "invalid skylink"
ErrNoDocuments == "mongo: no documents in result"
\* the driver's refusal of an update document without an operator
ErrNoOperator == "update document must contain key beginning with '$'"

\* a document of either collection; scoped tells a PubAPIKeyRecord (with
\* skylinks) from an APIKeyRecord
Doc(id, user, skylinks, scoped) ==
    [id |-> id, user_id |-> user, key |-> id, skylinks |-> skylinks, scoped |-> scoped]
NoDoc == Doc(ZeroID, ZeroID, <<>>, FALSE)

\* the key of a public API key that the database held before the service
\* was started
SeedKey == MaxKeys + 1
SeedDoc == Doc(SeedKey, 1, <<"B", "C">>, TRUE)

\* the keys and ids a client may name
Keys == 1..SeedKey

\* the database the service connects to: empty, or with a public API key
KeysInitSeeded ==
    /\ staticAPIKeys = {}
    /\ staticPubAPIKeys \in {{}, {SeedDoc}}
    /\ nextKey = 1
    /\ apiPc = [c \in Callers |-> "idle"]
    /\ apiReq = [c \in Callers |-> NoCreate]
    /\ apiOut = NoCall
    /\ revoked = {}

\* CountDocuments with the filter user_id
CountDocuments(coll, user) == Cardinality({d \in coll : d.user_id = user})

\* the update operators of the store that the package could use
UpdateOperators == {"$set", "$push", "$pull"}

ApplyUpdate(d, update) ==
    IF update.op = "$push"
    THEN [d EXCEPT !.skylinks = @ \o update.arg]
    ELSE IF update.op = "$pull"
    THEN [d EXCEPT !.skylinks = SelectSeq(@, LAMBDA x : x \notin Range(update.arg))]
    ELSE [d EXCEPT !.skylinks = update.arg]

\* UpdateOne without upsert: the driver refuses an update document whose key
\* is no operator; otherwise one matching document, if any, is updated
UpdateOne(coll, matching, update) ==
    IF update.op \notin UpdateOperators
    THEN [err |-> ErrNoOperator, coll |-> coll]
    ELSE IF matching = {}
    THEN [err |-> "none", coll |-> coll]
    ELSE LET d == CHOOSE x \in matching : TRUE
         IN  [err |-> "none", coll |-> (coll \ {d}) \cup {ApplyUpdate(d, update)}]

\* PubAPIKeyCreate that does not look at the skylinks
PubAPIKeyCreateChecksNoValidation(pubColl, user, skylinks) ==
    IF user = ZeroID
    THEN "invalid user"
    ELSE IF CountDocuments(pubColl, user) > MaxNumAPIKeysPerUser
    THEN ErrMaxNumAPIKeysExceeded
    ELSE "none"

\* PubAPIKeyCreate up to its call of InsertOne: the error it returns, or
\* "none" when it goes on to insert
PubAPIKeyCreateChecks(pubColl, user, skylinks) ==
    IF user = ZeroID
    THEN "invalid user"
    ELSE IF CountDocuments(pubColl, user) > MaxNumAPIKeysPerUser
    THEN ErrMaxNumAPIKeysExceeded
    ELSE IF \E i \in DOMAIN skylinks : ~ValidSkylinkHash(skylinks[i])
    THEN ErrInvalidSkylink
    ELSE "none"

\* PubAPIKeyUpdate: the collection afterwards and the error returned
PubAPIKeyUpdate(coll, user, pak, skylinks) ==
    IF user = ZeroID
    THEN [err |-> "invalid user", coll |-> coll]
    ELSE IF \E i \in DOMAIN skylinks : ~ValidSkylinkHash(skylinks[i])
    THEN [err |-> ErrInvalidSkylink, coll |-> coll]
    ELSE UpdateOne(coll, {d \in coll : d.key = pak /\ d.user_id = user},
                   [op |-> "skylinks", arg |-> skylinks])

\* PubAPIKeyPatch: the collection afterwards and the error returned
PubAPIKeyPatch(coll, user, pak, addSkylinks, removeSkylinks) ==
    IF user = ZeroID
    THEN [err |-> "invalid user", coll |-> coll]
    ELSE IF \E s \in Range(addSkylinks \o removeSkylinks) : ~ValidSkylinkHash(s)
    THEN [err |-> ErrInvalidSkylink, coll |-> coll]
    ELSE LET pushed ==
                 IF Len(addSkylinks) > 0
                 THEN UpdateOne(coll, {d \in coll : d.key = pak},
                                [op |-> "$push", arg |-> addSkylinks])
                 ELSE [err |-> "none", coll |-> coll]
         IN  IF pushed.err # "none"
             THEN pushed
             ELSE IF Len(removeSkylinks) > 0
             THEN UpdateOne(pushed.coll, {d \in pushed.coll : d.key = pak},
                            [op |-> "pull", arg |-> addSkylinks])
             ELSE pushed

\* PubAPIKeyDelete: the collection afterwards and the error returned
PubAPIKeyDelete(coll, user, id) ==
    IF user = ZeroID
    THEN [err |-> "invalid user", coll |-> coll]
    ELSE IF {d \in coll : d.id = id /\ d.user_id = user} = {}
    THEN [err |-> ErrNoDocuments, coll |-> coll]
    ELSE [err |-> "none",
          coll |-> coll \ {CHOOSE d \in coll : d.id = id /\ d.user_id = user}]

\* PubAPIKeyGetRecord: found by the key alone
PubAPIKeyGetRecord(coll, pak) ==
    IF {d \in coll : d.key = pak} = {}
    THEN [err |-> ErrNoDocuments, rec |-> NoDoc]
    ELSE [err |-> "none", rec |-> CHOOSE d \in coll : d.key = pak]

\* PubAPIKeyList without the filter on user_id
PubAPIKeyListUnfiltered(coll, user) ==
    IF user = ZeroID
    THEN [err |-> "invalid user", recs |-> {}]
    ELSE [err |-> "none", recs |-> coll]

\* PubAPIKeyList: the public API keys that belong to the user
PubAPIKeyList(coll, user) ==
    IF user = ZeroID
    THEN [err |-> "invalid user", recs |-> {}]
    ELSE [err |-> "none", recs |-> {d \in coll : d.user_id = user}]

\* a document decoded into an APIKeyRecord: it has no skylinks
DecodeAPIKeyRecord(d) == Doc(d.id, d.user_id, <<>>, FALSE)

\* APIKeyDelete that leaves the record in the collection
APIKeyDeleteKeepsRecord(coll, user, ak) ==
    IF user = ZeroID
    THEN [err |-> "invalid user", coll |-> coll]
    ELSE [err |-> "none", coll |-> coll]

\* APIKeyDelete: the result of DeleteOne is not looked at
APIKeyDelete(coll, user, ak) ==
    IF user = ZeroID
    THEN [err |-> "invalid user", coll |-> coll]
    ELSE [err |-> "none", coll |-> {d \in coll : ~(d.key = ak /\ d.user_id = user)}]

\* APIKeyList: the API keys that belong to the user
APIKeyList(coll, user) ==
    IF user = ZeroID
    THEN [err |-> "invalid user", recs |-> {}]
    ELSE [err |-> "none",
          recs |-> {DecodeAPIKeyRecord(d) : d \in {x \in coll : x.user_id = user}}]

(***************************************************************************)
(* Actions of the API-key state machine.  PubAPIKeyCreate makes two calls  *)
(* of the store, CountDocuments and InsertOne: other callers may run       *)
(* between them.  Every other function makes its store calls in one step.  *)
(***************************************************************************)
Finished(op, err) == [op |-> op, err |-> err]
Creating == {c \in Callers : apiPc[c] = "insert"}

\* PubAPIKeyCreate from its start to before InsertOne
PubAPIKeyCreateCount(c, user, skylinks) ==
    /\ apiPc[c] = "idle"
    /\ nextKey + Cardinality(Creating) <= MaxKeys
    /\ LET err == PubAPIKeyCreateChecks(staticPubAPIKeys, user, skylinks)
       IN  IF err # "none"
           THEN /\ apiOut' = Finished("PubAPIKeyCreate", err)
                /\ UNCHANGED <<apiPc, apiReq>>
           ELSE /\ apiPc' = [apiPc EXCEPT ![c] = "insert"]
                /\ apiReq' = [apiReq EXCEPT ![c] = [user |-> user, skylinks |-> skylinks]]
                /\ UNCHANGED apiOut
    /\ UNCHANGED <<now, challengeVars, tokenVars, loadVars, quotaVars, accountVars,
                   staticAPIKeys,
                   staticPubAPIKeys, nextKey, revoked>>

\* PubAPIKeyCreate from InsertOne on: the record goes to staticAPIKeys
PubAPIKeyCreateInsert(c) ==
    /\ apiPc[c] = "insert"
    /\ staticAPIKeys' = staticAPIKeys \cup
                          {Doc(nextKey, apiReq[c].user, apiReq[c].skylinks, TRUE)}
    /\ nextKey' = nextKey + 1
    /\ apiPc' = [apiPc EXCEPT ![c] = "idle"]
    /\ apiReq' = [apiReq EXCEPT ![c] = NoCreate]
    /\ apiOut' = Finished("PubAPIKeyCreate", "none")
    /\ UNCHANGED <<now, challengeVars, tokenVars, loadVars, quotaVars, accountVars,
                   staticPubAPIKeys,
                   revoked>>

\* APIKeyCreate: no count, one InsertOne
APIKeyCreate(user) ==
    /\ nextKey + Cardinality(Creating) <= MaxKeys
    /\ IF user = ZeroID
       THEN /\ apiOut' = Finished("APIKeyCreate", "invalid user")
            /\ UNCHANGED <<staticAPIKeys, nextKey>>
       ELSE /\ staticAPIKeys' = staticAPIKeys \cup {Doc(nextKey, user, <<>>, FALSE)}
            /\ nextKey' = nextKey + 1
            /\ apiOut' = Finished("APIKeyCreate", "none")
    /\ UNCHANGED <<now, challengeVars, tokenVars, loadVars, quotaVars, accountVars,
                   staticPubAPIKeys,
                   apiPc, apiReq, revoked>>

CallPubAPIKeyUpdate(user, pak, skylinks) ==
    /\ staticPubAPIKeys' = PubAPIKeyUpdate(staticPubAPIKeys, user, pak, skylinks).coll
    /\ apiOut' = Finished("PubAPIKeyUpdate",
                          PubAPIKeyUpdate(staticPubAPIKeys, user, pak, skylinks).err)
    /\ UNCHANGED <<now, challengeVars, tokenVars, loadVars, quotaVars, accountVars,
                   staticAPIKeys, nextKey,
                   apiPc, apiReq, revoked>>

CallPubAPIKeyPatch(user, pak, addSkylinks, removeSkylinks) ==
    /\ \A d \in staticPubAPIKeys :
          d.key = pak => Len(d.skylinks) + Len(addSkylinks) <= MaxSkylinks
    /\ staticPubAPIKeys' =
          PubAPIKeyPatch(staticPubAPIKeys, user, pak, addSkylinks, removeSkylinks).coll
    /\ apiOut' = Finished("PubAPIKeyPatch",
          PubAPIKeyPatch(staticPubAPIKeys, user, pak, addSkylinks, removeSkylinks).err)
    /\ UNCHANGED <<now, challengeVars, tokenVars, loadVars, quotaVars, accountVars,
                   staticAPIKeys, nextKey,
                   apiPc, apiReq, revoked>>

CallPubAPIKeyDelete(user, id) ==
    /\ staticPubAPIKeys' = PubAPIKeyDelete(staticPubAPIKeys, user, id).coll
    /\ apiOut' = Finished("PubAPIKeyDelete",
                          PubAPIKeyDelete(staticPubAPIKeys, user, id).err)
    /\ revoked' = IF PubAPIKeyDelete(staticPubAPIKeys, user, id).err = "none"
                  THEN revoked \cup {id}
                  ELSE revoked
    /\ UNCHANGED <<now, challengeVars, tokenVars, loadVars, quotaVars, accountVars,
                   staticAPIKeys, nextKey,
                   apiPc, apiReq>>

CallAPIKeyDelete(user, ak) ==
    /\ staticAPIKeys' = APIKeyDelete(staticAPIKeys, user, ak).coll
    /\ apiOut' = Finished("APIKeyDelete", APIKeyDelete(staticAPIKeys, user, ak).err)
    /\ revoked' = IF /\ APIKeyDelete(staticAPIKeys, user, ak).err = "none"
                     /\ \E d \in staticAPIKeys : d.key = ak /\ d.user_id = user
                  THEN revoked \cup {ak}
                  ELSE revoked
    /\ UNCHANGED <<now, challengeVars, tokenVars, loadVars, quotaVars, accountVars,
                   staticPubAPIKeys, nextKey,
                   apiPc, apiReq>>

\* the skylinks lists a client may send
CreateLists == {<<"B", "C">>, <<"bad">>}
UpdateLists == {<<>>, <<"A">>, <<"bad">>}
AddLists == {<<>>, <<"A">>}
RemoveLists == {<<>>, <<"B">>}

NextKeys ==
    \/ \E c \in Callers, user \in Users, skylinks \in CreateLists :
          PubAPIKeyCreateCount(c, user, skylinks)
    \/ \E c \in Callers : PubAPIKeyCreateInsert(c)
    \/ \E user \in Users : APIKeyCreate(user)
    \/ \E user \in Users, pak \in Keys, skylinks \in UpdateLists :
          CallPubAPIKeyUpdate(user, pak, skylinks)
    \/ \E user \in Users, pak \in Keys, addSkylinks \in AddLists,
          removeSkylinks \in RemoveLists :
          CallPubAPIKeyPatch(user, pak, addSkylinks, removeSkylinks)
    \/ \E user \in Users, id \in Keys : CallPubAPIKeyDelete(user, id)
    \/ \E user \in Users, ak \in Keys : CallAPIKeyDelete(user, ak)

InitKeys ==
    /\ ClockInit /\ AccountInit /\ ChallengeInit /\ TokenInit /\ LoadInit
    /\ KeysInitSeeded /\ QuotaInit
SpecKeys == InitKeys /\ [][NextKeys]_vars

(***************************************************************************)
(* Claims about the API keys, checked under SpecKeys.                      *)
(***************************************************************************)
KeyOwners == Users \ {ZeroID}
\* the public (scoped) API keys the store holds, in whichever collection,
\* now and after the step
ScopedDocs == {d \in staticAPIKeys : d.scoped} \cup staticPubAPIKeys
ScopedDocsNext == {d \in staticAPIKeys' : d.scoped} \cup staticPubAPIKeys'
ScopedOwned(user) == Cardinality({d \in ScopedDocs : d.user_id = user})
FullOwned(user) == Cardinality({d \in staticAPIKeys : ~d.scoped /\ d.user_id = user})
AllValid(skylinks) == \A i \in DOMAIN skylinks : ValidSkylinkHash(skylinks[i])

\* C13: with the maximum N, a PubAPIKeyCreate with valid skylinks of a user
\* who holds fewer than N public API keys goes on to insert, and one of a
\* user who holds N already fails with ErrMaxNumAPIKeysExceeded and inserts
\* nothing.
C13_CreateBeyondMaximumFails ==
    [][\A c \in Callers, user \in KeyOwners, skylinks \in CreateLists :
          PubAPIKeyCreateCount(c, user, skylinks)
          => /\ (ScopedOwned(user) >= MaxNumAPIKeysPerUser /\ AllValid(skylinks)
                   => /\ apiOut' = Finished("PubAPIKeyCreate", ErrMaxNumAPIKeysExceeded)
                      /\ apiPc'[c] = "idle")
             /\ (ScopedOwned(user) < MaxNumAPIKeysPerUser /\ Creating = {}
                 /\ AllValid(skylinks)
                   => apiPc'[c] = "insert")]_vars

\* C14: in every reachable state a user holds at most the maximum number of
\* public API keys, however the calls of PubAPIKeyCreate interleave.
C14_ScopedKeysCapped ==
    \A user \in KeyOwners : ScopedOwned(user) <= MaxNumAPIKeysPerUser

\* C15: in every reachable state a user holds at most the maximum number of
\* API keys: APIKeyCreate enforces the maximum.
C15_FullKeysCapped ==
    \A user \in KeyOwners : FullOwned(user) <= MaxNumAPIKeysPerUser

\* C16: a public API key that PubAPIKeyCreate has created and that nobody
\* has deleted is listed by PubAPIKeyList for its user and found, with its
\* skylinks, by PubAPIKeyGetRecord of its key.
C16_CreatedKeyVisible ==
    \A d \in {x \in staticAPIKeys : x.scoped} :
        /\ d \in PubAPIKeyList(staticPubAPIKeys, d.user_id).recs
        /\ PubAPIKeyGetRecord(staticPubAPIKeys, d.key) = [err |-> "none", rec |-> d]

\* C17: whatever was created, updated, patched and deleted, and by whom,
\* every record that PubAPIKeyList or APIKeyList returns for a user belongs
\* to that user.
C17_ListOnlyOwn ==
    \A user \in Users :
        /\ \A rec \in PubAPIKeyList(staticPubAPIKeys, user).recs : rec.user_id = user
        /\ \A rec \in APIKeyList(staticAPIKeys, user).recs : rec.user_id = user

\* both collections hold records, of two users in one of them, and the
\* lists of user 1 are not empty
C17_Witness ==
    /\ \E d \in staticAPIKeys : d.user_id = 2
    /\ APIKeyList(staticAPIKeys, 1).recs # {}
    /\ PubAPIKeyList(staticPubAPIKeys, 1).recs # {}
    /\ PubAPIKeyList(staticPubAPIKeys, 2).recs = {}
    /\ apiOut.op = "PubAPIKeyPatch"

\* C18: PubAPIKeyPatch by the owner of a public API key leaves the key with
\* its old skylinks plus addSkylinks minus removeSkylinks (order irrelevant).
C18_PatchAddsAndRemoves ==
    [][\A user \in KeyOwners, pak \in Keys, addSkylinks \in AddLists,
          removeSkylinks \in RemoveLists :
          CallPubAPIKeyPatch(user, pak, addSkylinks, removeSkylinks)
          => \A d \in ScopedDocs :
                d.key = pak /\ d.user_id = user
                => \E e \in ScopedDocsNext :
                      /\ e.key = pak
                      /\ Range(e.skylinks) =
                           (Range(d.skylinks) \cup Range(addSkylinks))
                               \ Range(removeSkylinks)]_vars

\* C19: a PubAPIKeyUpdate or PubAPIKeyPatch by a user leaves every public
\* API key of every other user as it was.
C19_OnlyOwnerChanges ==
    [][\A user \in Users, pak \in Keys :
          (\/ \E skylinks \in UpdateLists : CallPubAPIKeyUpdate(user, pak, skylinks)
           \/ \E addSkylinks \in AddLists, removeSkylinks \in RemoveLists :
                 CallPubAPIKeyPatch(user, pak, addSkylinks, removeSkylinks))
          => \A d \in ScopedDocs : d.user_id # user => d \in ScopedDocsNext]_vars

\* C20: a PubAPIKeyUpdate or PubAPIKeyPatch with valid arguments on a key
\* that does not exist, or that belongs to another user, returns the error
\* for no document found.
C20_ZeroAffectedIsNotFound ==
    [][\A user \in KeyOwners, pak \in Keys :
          (/\ ~\E d \in ScopedDocs : d.key = pak /\ d.user_id = user
           /\ \/ \E skylinks \in UpdateLists :
                    AllValid(skylinks) /\ CallPubAPIKeyUpdate(user, pak, skylinks)
              \/ \E addSkylinks \in AddLists, removeSkylinks \in RemoveLists :
                    CallPubAPIKeyPatch(user, pak, addSkylinks, removeSkylinks))
          => apiOut'.err = ErrNoDocuments]_vars

\* C21: a PubAPIKeyDelete or APIKeyDelete by a user, of a key or id under
\* which the store holds no record of that user, returns the error for no
\* document found and leaves both collections as they were.
C21_DeleteUnmatchedIsNotFound ==
    [][\A user \in KeyOwners, id \in Keys :
          (/\ ~\E d \in staticAPIKeys \cup staticPubAPIKeys :
                  d.key = id /\ d.user_id = user
           /\ (CallPubAPIKeyDelete(user, id) \/ CallAPIKeyDelete(user, id)))
          => /\ apiOut'.err = ErrNoDocuments
             /\ UNCHANGED <<staticAPIKeys, staticPubAPIKeys>>]_vars

\* the users' lists and the lookup by key do not show the key
Hidden(k) ==
    /\ PubAPIKeyGetRecord(staticPubAPIKeys, k).err # "none"
    /\ \A user \in Users :
          /\ \A rec \in PubAPIKeyList(staticPubAPIKeys, user).recs : rec.key # k
          /\ \A rec \in APIKeyList(staticAPIKeys, user).recs : rec.key # k

\* C22: a key that its owner has deleted with success is, in every later
\* state, in no user's list and not found by PubAPIKeyGetRecord.
C22_DeletedKeyStaysRevoked == \A k \in revoked : Hidden(k)

\* the owner has deleted the public API key the database started with, and
\* an owner has deleted a key created since, while other keys are listed
C22_Witness ==
    /\ SeedKey \in revoked
    /\ \E k \in revoked : k # SeedKey
    /\ \E user \in KeyOwners : APIKeyList(staticAPIKeys, user).recs # {}

\* the Key field of a record that does not carry the key
NoSecret == ZeroID

\* C23: the records that PubAPIKeyList and APIKeyList return for the keys
\* in the store do not carry the keys themselves: the key is handed out by
\* the create call only.
C23_SecretOnlyAtCreation ==
    \A user \in Users :
        /\ \A rec \in PubAPIKeyList(staticPubAPIKeys, user).recs : rec.key = NoSecret
        /\ \A rec \in APIKeyList(staticAPIKeys, user).recs : rec.key = NoSecret

MaxPins == 3

\* database.UserLimits: the limits of each tier
NoLimits == [MaxNumberUploads |-> 0, Storage |-> 0]
UserLimits ==
    [t \in Tiers |->
        IF t = TierAnonymous THEN [MaxNumberUploads |-> 1, Storage |-> 1]
        ELSE IF t = TierFree THEN [MaxNumberUploads |-> 2, Storage |-> 3]
        ELSE [MaxNumberUploads |-> 3, Storage |-> 5]]

\* the size of the skyfile behind a skylink
SkylinkSize(sl) == IF sl = "A" THEN 1 ELSE 2

\* UserStats: the number of the user's uploads and their total size
UserStats(up) ==
    [NumUploads |-> up["A"] + up["B"],
     TotalUploadsSize |-> up["A"] * SkylinkSize("A") + up["B"] * SkylinkSize("B")]

\* the comparison of checkUserQuotas with >= in place of >
quotaExceededAtLimit(us, q) ==
    us.NumUploads >= q.MaxNumberUploads \/ us.TotalUploadsSize >= q.Storage

\* quotaExceeded as checkUserQuotas computes it
quotaExceeded(us, q) ==
    us.NumUploads > q.MaxNumberUploads \/ us.TotalUploadsSize > q.Storage

\* userLimitsGET that does not look at QuotaExceeded
userLimitsGETIgnoresQuota(u) ==
    IF u.nil THEN UserLimits[TierAnonymous] ELSE UserLimits[u.Tier]

\* userLimitsGET: the limits written to the caller
userLimitsGET(u) ==
    IF u.nil \/ u.QuotaExceeded
    THEN UserLimits[TierAnonymous]
    ELSE UserLimits[u.Tier]

\* checkUserQuotas run with the context of the request
checkUserQuotasRequestContext(r) == "request"

\* the context the handlers hand to checkUserQuotas: context.Background()
checkUserQuotasContext(r) == "background"

\* a call of the database with this context fails: the context is done
CtxDone(ctx, r) == ctx = "request" /\ reqCancelled[r]

QuotaOut(op, status, limits, exceeded, saved) ==
    [op |-> op, v |-> status, limits |-> limits, exceeded |-> exceeded,
     saved |-> saved]
Returned(r) ==
    /\ reqPc' = [reqPc EXCEPT ![r] = "idle"]
    /\ reqUser' = [reqUser EXCEPT ![r] = NilUser]
    /\ UNCHANGED reqCancelled
otherVars == <<now, challengeVars, tokenVars, loadVars, keyVars, accountVars>>

\* trackUploadPOST up to WriteSuccess: UserBySub, UploadCreate
trackUploadPOST(r, sl, authed) ==
    /\ ~stopped
    /\ reqPc[r] = "idle"
    /\ IF ~authed
       THEN /\ quotaOut' = QuotaOut("trackUploadPOST", "401", NoLimits, FALSE, FALSE)
            /\ UNCHANGED <<uploads, reqPc, reqUser, reqCancelled>>
       ELSE /\ uploads[sl] < MaxPins
            /\ reqCancelled' = [reqCancelled EXCEPT ![r] = FALSE]
            /\ reqUser' = [reqUser EXCEPT ![r] = dbUser]
            /\ uploads' = [uploads EXCEPT ![sl] = @ + 1]
            /\ reqPc' = [reqPc EXCEPT ![r] = "respond"]
            /\ UNCHANGED quotaOut
    /\ UNCHANGED <<otherVars, dbUser, stopped>>

\* userUploadsDELETE up to WriteSuccess: UserBySub, UnpinUploads
userUploadsDELETE(r, sl, authed) ==
    /\ ~stopped
    /\ reqPc[r] = "idle"
    /\ IF ~authed
       THEN /\ quotaOut' = QuotaOut("userUploadsDELETE", "401", NoLimits, FALSE, FALSE)
            /\ UNCHANGED <<uploads, reqPc, reqUser, reqCancelled>>
       ELSE /\ reqCancelled' = [reqCancelled EXCEPT ![r] = FALSE]
            /\ reqUser' = [reqUser EXCEPT ![r] = dbUser]
            /\ uploads' = [uploads EXCEPT ![sl] = 0]
            /\ reqPc' = [reqPc EXCEPT ![r] = "respond"]
            /\ UNCHANGED quotaOut
    /\ UNCHANGED <<otherVars, dbUser, stopped>>

\* WriteSuccess, and then the go statement that starts checkUserQuotas
WriteSuccess(r) ==
    /\ ~stopped
    /\ reqPc[r] = "respond"
    /\ reqPc' = [reqPc EXCEPT ![r] = "stats"]
    /\ quotaOut' = QuotaOut("WriteSuccess", "200", NoLimits, FALSE, FALSE)
    /\ UNCHANGED <<otherVars, dbUser, uploads, reqUser, reqCancelled, stopped>>

\* checkUserQuotas from UserStats to the comparison with u.QuotaExceeded
checkUserQuotasStats(r) ==
    /\ ~stopped
    /\ reqPc[r] = "stats"
    /\ IF CtxDone(checkUserQuotasContext(r), r)
       THEN /\ quotaOut' = QuotaOut("checkUserQuotas", "Failed to fetch user's stats",
                                    NoLimits, FALSE, FALSE)
            /\ Returned(r)
       ELSE LET us == UserStats(uploads)
                q == UserLimits[reqUser[r].Tier]
            IN  IF quotaExceeded(us, q) # reqUser[r].QuotaExceeded
                THEN /\ reqUser' = [reqUser EXCEPT
                                      ![r].QuotaExceeded = quotaExceeded(us, q)]
                     /\ reqPc' = [reqPc EXCEPT ![r] = "save"]
                     /\ UNCHANGED <<quotaOut, reqCancelled>>
                ELSE /\ quotaOut' = QuotaOut("checkUserQuotas", "done", NoLimits,
                                             quotaExceeded(us, q), FALSE)
                     /\ Returned(r)
    /\ UNCHANGED <<otherVars, dbUser, uploads, stopped>>

\* checkUserQuotas: UserSave of u
checkUserQuotasSave(r) ==
    /\ ~stopped
    /\ reqPc[r] = "save"
    /\ IF CtxDone(checkUserQuotasContext(r), r)
       THEN /\ quotaOut' = QuotaOut("checkUserQuotas", "Failed to save user",
                                    NoLimits, reqUser[r].QuotaExceeded, FALSE)
            /\ UNCHANGED dbUser
       ELSE /\ dbUser' = reqUser[r]
            /\ quotaOut' = QuotaOut("checkUserQuotas", "done", NoLimits,
                                    reqUser[r].QuotaExceeded, TRUE)
    /\ Returned(r)
    /\ UNCHANGED <<otherVars, uploads, stopped>>

\* the context of the request is cancelled: the client has gone, or the
\* handler has returned
CancelRequest(r) ==
    /\ ~stopped
    /\ reqPc[r] # "idle"
    /\ ~reqCancelled[r]
    /\ reqCancelled' = [reqCancelled EXCEPT ![r] = TRUE]
    /\ UNCHANGED <<otherVars, dbUser, uploads, reqPc, reqUser, quotaOut, stopped>>

\* the handler userLimitsGET: anonymous tells a request without a user
CallUserLimitsGET(anonymous) ==
    /\ ~stopped
    /\ quotaOut' = QuotaOut("userLimitsGET", "200",
                            userLimitsGET(IF anonymous THEN NilUser ELSE dbUser),
                            FALSE, FALSE)
    /\ UNCHANGED <<otherVars, dbUser, uploads, reqPc, reqUser, reqCancelled, stopped>>

\* the process exits: its goroutines are gone
Shutdown ==
    /\ ~stopped
    /\ stopped' = TRUE
    /\ UNCHANGED <<otherVars, dbUser, uploads, reqPc, reqUser, reqCancelled, quotaOut>>

NextQuota ==
    \/ \E r \in QuotaRequests, sl \in QuotaSkylinks, authed \in BOOLEAN :
          trackUploadPOST(r, sl, authed)
    \/ \E r \in QuotaRequests, sl \in QuotaSkylinks, authed \in BOOLEAN :
          userUploadsDELETE(r, sl, authed)
    \/ \E r \in QuotaRequests : WriteSuccess(r)
    \/ \E r \in QuotaRequests : checkUserQuotasStats(r)
    \/ \E r \in QuotaRequests : checkUserQuotasSave(r)
    \/ \E r \in QuotaRequests : CancelRequest(r)
    \/ \E anonymous \in BOOLEAN : CallUserLimitsGET(anonymous)
    \/ Shutdown

\* the user's tier is free, or premium by a payment
InitQuota ==
    /\ ClockInit /\ AccountInit /\ ChallengeInit /\ TokenInit /\ LoadInit /\ KeysInit
    /\ \E tier \in {TierFree, TierPremium} : QuotaInitTier(tier)

\* a goroutine that can take a step takes it in the end
SpecQuota ==
    /\ InitQuota
    /\ [][NextQuota]_vars
    /\ \A r \in QuotaRequests :
          WF_vars(checkUserQuotasStats(r) \/ checkUserQuotasSave(r))

(***************************************************************************)
(* Claims about the quota, checked under SpecQuota.                        *)
(***************************************************************************)
\* what the step of checkUserQuotasStats by r has computed
ComputedNext(r) ==
    IF reqPc'[r] = "save" THEN reqUser'[r].QuotaExceeded ELSE quotaOut'.exceeded
\* the step is one of checkUserQuotas by r
checkUserQuotasStep(r) == checkUserQuotasStats(r) \/ checkUserQuotasSave(r)

\* C25: checkUserQuotas computes the quota as exceeded exactly when the
\* number of uploads is at least one more than the tier's MaxNumberUploads
\* or their total size at least one more than its Storage: at a limit the
\* quota is not exceeded.
C25_ExceededIsStrict ==
    [][\A r \in QuotaRequests :
          checkUserQuotasStats(r)
          => LET us == UserStats(uploads)
                 q == UserLimits[reqUser[r].Tier]
             IN  /\ (us.NumUploads <= q.MaxNumberUploads
                      /\ us.TotalUploadsSize <= q.Storage) => ~ComputedNext(r)
                 /\ (us.NumUploads >= q.MaxNumberUploads + 1
                      \/ us.TotalUploadsSize >= q.Storage + 1) => ComputedNext(r)]_vars

\* checkUserQuotas has compared usage exactly at both limits of the tier
\* and found the quota not exceeded
C25_Witness ==
    /\ quotaOut = QuotaOut("checkUserQuotas", "done", NoLimits, FALSE, FALSE)
    /\ UserStats(uploads).NumUploads = UserLimits[dbUser.Tier].MaxNumberUploads
    /\ UserStats(uploads).TotalUploadsSize = UserLimits[dbUser.Tier].Storage
    /\ ~dbUser.QuotaExceeded
    /\ \A r \in QuotaRequests : reqPc[r] = "idle"

\* C26: userLimitsGET answers with the limits of the anonymous tier when
\* the request has no user or the user's stored QuotaExceeded is set,
\* whatever the user's tier, and with the limits of the user's tier
\* otherwise.
C26_LimitsFallBack ==
    [][\A anonymous \in BOOLEAN :
          CallUserLimitsGET(anonymous)
          => quotaOut'.limits =
                IF anonymous THEN UserLimits[TierAnonymous]
                ELSE IF dbUser.QuotaExceeded THEN UserLimits[TierAnonymous]
                ELSE UserLimits[dbUser.Tier]]_vars

\* a premium user over quota has been given the limits of the anonymous tier
C26_Witness ==
    /\ quotaOut.op = "userLimitsGET"
    /\ quotaOut.limits = UserLimits[TierAnonymous]
    /\ dbUser.Tier = TierPremium
    /\ dbUser.QuotaExceeded

\* C27: the stored QuotaExceeded follows the usage in both directions: once
\* every checkUserQuotas that was started has finished, the flag is set if
\* the usage is over a limit of the user's tier and clear if it is not.
C27_FlagFollowsUsage ==
    (\A r \in QuotaRequests : reqPc[r] = "idle")
    => dbUser.QuotaExceeded =
          quotaExceeded(UserStats(uploads), UserLimits[dbUser.Tier])

\* C28: checkUserQuotas saves the user exactly when the value it computed
\* differs from the stored QuotaExceeded, and the save writes that value.
C28_WrittenOnlyIfChanged ==
    [][\A r \in QuotaRequests :
          /\ checkUserQuotasStats(r)
             => (reqPc'[r] = "save" <=> ComputedNext(r) # dbUser.QuotaExceeded)
          /\ checkUserQuotasSave(r)
             => /\ dbUser.QuotaExceeded # reqUser[r].QuotaExceeded
                /\ dbUser'.QuotaExceeded = reqUser[r].QuotaExceeded]_vars

\* C29: checkUserQuotas of a request starts only with the step that writes
\* the answer; no step of it fails because the request was cancelled; it
\* takes no step once the process has stopped; and once started it
\* finishes unless the process stops.
C29_DetachedRecompute ==
    /\ [][\A r \in QuotaRequests :
             /\ (reqPc'[r] = "stats" /\ reqPc[r] # "stats") => WriteSuccess(r)
             /\ checkUserQuotasStep(r) => ~stopped
             /\ checkUserQuotasStats(r)
                => (reqPc'[r] = "save" \/ quotaOut'.v = "done")
             /\ checkUserQuotasSave(r) => quotaOut'.saved]_vars
    /\ \A r \in QuotaRequests :
          (reqPc[r] \in {"stats", "save"}) ~> (reqPc[r] = "idle" \/ stopped)

\* the contexts of both requests were cancelled before their handlers'
\* checkUserQuotas finished, and the last of them has saved the user
C29_Witness ==
    /\ \A r \in QuotaRequests : reqPc[r] = "idle" /\ reqCancelled[r]
    /\ quotaOut = QuotaOut("checkUserQuotas", "done", NoLimits, TRUE, TRUE)
    /\ dbUser.QuotaExceeded
    /\ ~stopped

(***************************************************************************)
(* Claim about the login cookie, checked under SpecToken.                  *)
(***************************************************************************)
\* C30: on both logins, with credentials (loginUser) and with a token
\* (loginPOSTToken), a cookie that is written wraps a token, its expiry is
\* the exp of that token, and the token has not expired at the clock
\* reading of the login.
C30_CookieExpiresWithToken ==
    [][(\/ \E cookieOK \in BOOLEAN : LoginRespond(cookieOK)
        \/ \E email \in TokenEmails, sub \in Subs, cookieOK \in BOOLEAN :
              CallLoginUser(email, sub, cookieOK))
       => (lres'.cookie.set
             => /\ lres'.cookie.value.present
                /\ lres'.cookie.expires = lres'.cookie.value.payload.exp
                /\ now <= Expiration(lres'.cookie.value.payload))]_vars

\* after the clock has moved, a user has logged in with credentials and
\* holds a cookie that wraps the token issued to them
C30_Witness ==
    /\ now > 0
    /\ issued.err = "none"
    /\ ~wire.present
    /\ lres.status = 200
    /\ lres.cookie.value = issued.bytes
    /\ lres.cookie.expires = issued.tk.exp
    /\ Expiration(issued.tk) = FromUnix(Unix(now)) + FromUnix(TTL)


(***************************************************************************)
(* More claims about the quota, checked under SpecQuota.                   *)
(***************************************************************************)
\* no handler is between its read of the user and the end of its recompute
QuotaQuiet == \A o \in QuotaRequests : reqPc[o] = "idle"

\* C31: the quota flag is eventually consistent: the step by which the last
\* running recompute finishes, whatever the interleaving of the recomputes
\* before it, leaves the stored flag equal to the exceeded predicate
\* evaluated on the usage that is then final.
C31_FlagEventuallyConsistent ==
    [][\A r \in QuotaRequests :
          (checkUserQuotasStep(r) /\ QuotaQuiet')
          => dbUser'.QuotaExceeded =
                quotaExceeded(UserStats(uploads'), UserLimits[dbUser'.Tier])]_vars


(***************************************************************************)
(* Package api: the profile of a user next to the quota.  userGET and the  *)
(* handlers that start checkUserQuotas work on the same document.          *)
(***************************************************************************)
\* the email addresses the user's tokens carry
ProfileEmails == {"a@x", "b@x"}

\* a *database.User with its email
Profile(email, tier, exceeded) ==
    [nil |-> FALSE, Tier |-> tier, QuotaExceeded |-> exceeded, Email |-> email]

\* userGET: UserBySub, and UserSave if the email of the token is not the
\* email of the user
userGET(authed, email) ==
    /\ ~stopped
    /\ IF ~authed
       THEN /\ quotaOut' = QuotaOut("userGET", "401", NoLimits, FALSE, FALSE)
            /\ UNCHANGED dbUser
       ELSE IF email # dbUser.Email
       THEN /\ dbUser' = [dbUser EXCEPT !.Email = email]
            /\ quotaOut' = QuotaOut("userGET", "200", NoLimits, FALSE, TRUE)
       ELSE /\ quotaOut' = QuotaOut("userGET", "200", NoLimits, FALSE, FALSE)
            /\ UNCHANGED dbUser
    /\ UNCHANGED <<otherVars, uploads, reqPc, reqUser, reqCancelled, stopped>>

NextProfile ==
    \/ \E r \in QuotaRequests, sl \in QuotaSkylinks, authed \in BOOLEAN :
          trackUploadPOST(r, sl, authed)
    \/ \E r \in QuotaRequests : WriteSuccess(r)
    \/ \E r \in QuotaRequests : checkUserQuotasStats(r)
    \/ \E r \in QuotaRequests : checkUserQuotasSave(r)
    \/ \E authed \in BOOLEAN, email \in ProfileEmails : userGET(authed, email)

\* a free user with an email who has uploaded nothing
InitProfile ==
    /\ ClockInit /\ AccountInit /\ ChallengeInit /\ TokenInit /\ LoadInit /\ KeysInit
    /\ dbUser = Profile("a@x", TierFree, FALSE)
    /\ uploads = [sl \in QuotaSkylinks |-> 0]
    /\ reqPc = [r \in QuotaRequests |-> "idle"]
    /\ reqUser = [r \in QuotaRequests |-> NilUser]
    /\ reqCancelled = [r \in QuotaRequests |-> FALSE]
    /\ quotaOut = NoQuotaCall
    /\ stopped = FALSE

SpecProfile == InitProfile /\ [][NextProfile]_vars

\* C32: a quota recompute changes no field of the user other than the
\* quota-exceeded flag: an email that userGET saved after the recompute's
\* handler read the user is still the stored email after the recompute's save.
C32_RecomputeKeepsProfile ==
    [][\A r \in QuotaRequests :
          checkUserQuotasSave(r) => dbUser'.Email = dbUser.Email]_vars


(***************************************************************************)
(* More claims about the API keys, checked under SpecKeys.                 *)
(***************************************************************************)
\* C33: PubAPIKeyPatch is all-or-nothing: the collection that ResolveScoped
\* and List read after a patch is either the one before it, or one in which
\* the key has every addition and none of the removals; a patch that returns
\* an error leaves no addition behind.
C33_PatchAllOrNothing ==
    [][\A user \in Users, pak \in Keys, addSkylinks \in AddLists,
          removeSkylinks \in RemoveLists :
          CallPubAPIKeyPatch(user, pak, addSkylinks, removeSkylinks)
          => \/ staticPubAPIKeys' = staticPubAPIKeys
             \/ /\ apiOut'.err = "none"
                /\ \A e \in ScopedDocsNext :
                      e.key = pak
                      => /\ Range(addSkylinks) \subseteq Range(e.skylinks)
                         /\ Range(removeSkylinks) \cap Range(e.skylinks) = {}]_vars


(***************************************************************************)
(* More claims about the key set and the tokens, checked under SpecToken.  *)
(***************************************************************************)
\* C34: a LoadAccountsKeySet that returns an error (file unreadable, content
\* malformed, public set not derivable) leaves AccountsJWKS and
\* AccountsPublicJWKS as the last successful load installed them.
C34_FailedLoadKeepsCache ==
    [][\A f \in 1..Len(JWKSFiles) :
          ( /\ CallLoadAccountsKeySet(JWKSFiles[f])
            /\ LoadAccountsKeySet(JWKSFiles[f], AccountsJWKS,
                                  AccountsPublicJWKS).err # "none" )
          => UNCHANGED <<AccountsJWKS, AccountsPublicJWKS>>]_vars

\* the errors TokenForUser returns when the cached key set gives no key
NoUsableKey == {"JWKS is empty", "failed to determine signature algorithm"}

\* C35: TokenForUser never faults on the state of the key-set cache: called
\* with a cache that was never loaded or was cleared, with an empty set, or
\* with a key of an unsupported algorithm, it returns an error value and no
\* token.
C35_IssueNeverFaults ==
    (issued.err # "not called" /\ signatureAlgoAndKey(issued.jwks).err # "none")
    => (issued.err \in NoUsableKey /\ issued.bytes = NoBytes)


(***************************************************************************)
(* Package api: userPUT sets the Stripe customer id of a user.  Each call  *)
(* of the database is one step.                                            *)
(***************************************************************************)
notBilling == <<now, challengeVars, tokenVars, loadVars, keyVars, quotaVars, jar, lreq>>

\* userPUT has answered with the status
PutDone(c, status) ==
    /\ putOut' = [sub |-> put[c].sub, status |-> status]
    /\ put' = [put EXCEPT ![c] = NoPut]

\* userPUT up to its check of the body: TokenFromContext, UserBySub, the
\* payload; u.StripeID is the id of the user as read here
userPUTRead(c, sub, id, authed) ==
    /\ put[c].pc = "idle"
    /\ IF ~authed
       THEN /\ putOut' = [sub |-> "", status |-> 401]
            /\ UNCHANGED put
       ELSE IF id = ""
       THEN /\ putOut' = [sub |-> sub, status |-> 400]
            /\ UNCHANGED put
       ELSE IF id = billing[sub]
       THEN /\ putOut' = [sub |-> sub, status |-> 200]
            /\ UNCHANGED put
       ELSE /\ put' = [put EXCEPT ![c] = [pc |-> "lookup", sub |-> sub,
                                          StripeID |-> billing[sub], id |-> id]]
            /\ UNCHANGED putOut
    /\ UNCHANGED <<notBilling, billing>>

\* UserByStripeID: a user with that customer id, or ErrUserNotFound ("")
UserByStripeID(id) ==
    IF \E u \in BillingUsers : billing[u] = id
    THEN {u \in BillingUsers : billing[u] = id}
    ELSE {""}

\* userPUT: the lookup of the customer id and the two checks after it
userPUTLookup(c) ==
    /\ put[c].pc = "lookup"
    /\ \E eu \in UserByStripeID(put[c].id) :
          IF eu # "" /\ eu # put[c].sub
          THEN PutDone(c, 400)
          ELSE IF put[c].StripeID # ""
          THEN PutDone(c, 422)
          ELSE /\ put' = [put EXCEPT ![c].pc = "set"]
               /\ UNCHANGED putOut
    /\ UNCHANGED <<notBilling, billing>>

\* userPUT: UserSetStripeID and the answer
userPUTSet(c) ==
    /\ put[c].pc = "set"
    /\ billing' = [billing EXCEPT ![put[c].sub] = put[c].id]
    /\ PutDone(c, 200)
    /\ UNCHANGED notBilling

NextBilling ==
    \/ \E c \in Callers, sub \in BillingUsers, id \in StripeIDs \cup {""},
          authed \in BOOLEAN : userPUTRead(c, sub, id, authed)
    \/ \E c \in Callers : userPUTLookup(c)
    \/ \E c \in Callers : userPUTSet(c)

InitBilling ==
    ClockInit /\ AccountInit /\ ChallengeInit /\ TokenInit /\ LoadInit /\ KeysInit /\ QuotaInit

SpecBilling == InitBilling /\ [][NextBilling]_vars

\* C36: a Stripe customer id belongs to at most one user in every reachable
\* state, also when two users submit the same id in concurrent userPUT
\* requests.
C36_StripeIDUnique ==
    \A a, b \in BillingUsers :
        (a # b /\ billing[a] # "") => billing[a] # billing[b]


(***************************************************************************)
(* Package api: login and logout.  A client logs in with credentials or    *)
(* with a token, holds the cookie of the answer, logs out, and presents    *)
(* the token it was issued as a bearer token.  A handler is one step.      *)
(***************************************************************************)
\* hash.Compare: the password hashes to the stored hash
Hash(password) == <<"hash", password>>
hashCompare(password, passwordHash) == Hash(password) = passwordHash

\* the users of the database, and the lookup by email
LoginUsers ==
    { [nil |-> FALSE, Email |-> "a@x", Sub |-> "u1", PasswordHash |-> Hash("pw1")],
      [nil |-> FALSE, Email |-> "b@x", Sub |-> "u2", PasswordHash |-> Hash("pw2")] }
NilLoginUser == [nil |-> TRUE, Email |-> "", Sub |-> "", PasswordHash |-> Hash("")]
UserByEmail(email) ==
    IF \E u \in LoginUsers : u.Email = email
    THEN CHOOSE u \in LoginUsers : u.Email = email
    ELSE NilLoginUser

\* what the login forms carry
LoginEmails == {"", "a@x", "b@x", "c@x"}
LoginPasswords == {"", "pw1"}

Refused(status) == [status |-> status, cookie |-> NoCookie]

\* loginPOSTCredentials that does not compare the password
loginPOSTCredentialsNoCompare(email, password, jwks, t, cookieOK) ==
    LET u == UserByEmail(email)
    IN  IF u.nil
        THEN Refused(401)
        ELSE loginUser(TokenForUser(u.Email, u.Sub, jwks, t), cookieOK)

\* loginPOSTCredentials: UserByEmail, hash.Compare, loginUser
loginPOSTCredentials(email, password, jwks, t, cookieOK) ==
    LET u == UserByEmail(email)
    IN  IF u.nil
        THEN Refused(401)
        ELSE IF ~hashCompare(password, u.PasswordHash)
        THEN Refused(401)
        ELSE loginUser(TokenForUser(u.Email, u.Sub, jwks, t), cookieOK)

\* loginPOST that tries the token of the request first
loginPOSTTokenFirst(email, pw, tokenStr, jwks, pub, t, cookieOK) ==
    IF tokenStr.present \/ email = "" \/ pw = ""
    THEN loginPOSTToken(tokenStr, ValidateToken(tokenStr, pub, t), t, cookieOK)
    ELSE loginPOSTCredentials(email, pw, jwks, t, cookieOK)

\* loginPOST: credentials if both form values are there, else the token
loginPOST(email, pw, tokenStr, jwks, pub, t, cookieOK) ==
    IF email # "" /\ pw # ""
    THEN loginPOSTCredentials(email, pw, jwks, t, cookieOK)
    ELSE loginPOSTToken(tokenStr, ValidateToken(tokenStr, pub, t), t, cookieOK)

\* logoutPOST that does not look at the context
logoutPOSTUnchecked(ctx, t, cookieOK) ==
    IF ~cookieOK
    THEN Refused(500)
    ELSE [status |-> 200, cookie |-> writeCookie(NoBytes, Unix(t) - 1)]

\* logoutPOST: TokenFromContext, then the cookie with an empty value that
\* expired a second ago
logoutPOST(ctx, t, cookieOK) ==
    IF TokenFromContext(ctx).err # "none"
    THEN Refused(401)
    ELSE IF ~cookieOK
    THEN Refused(500)
    ELSE [status |-> 200, cookie |-> writeCookie(NoBytes, Unix(t) - 1)]

\* the context the handlers behind the validating middleware get for a
\* request that carries the token
RequestContext(tokenStr, pub, t) ==
    IF tokenStr.present /\ ValidateToken(tokenStr, pub, t).err = "none"
    THEN ContextWithToken(ValidateToken(tokenStr, pub, t).token)
    ELSE EmptyContext

\* the tokens a client may attach to a request: none, the one issued to it,
\* that one with an altered signature, the one in its cookie
TokenKinds == {"none", "issued", "altered", "cookie"}
HasToken(kind) ==
    \/ kind = "none"
    \/ kind \in {"issued", "altered"} /\ issued.err = "none"
    \/ kind = "cookie" /\ jar.set /\ jar.value.present
ClientToken(kind) ==
    IF kind = "issued" THEN issued.bytes
    ELSE IF kind = "altered" THEN CorruptSignature(issued.bytes)
    ELSE IF kind = "cookie" THEN jar.value
    ELSE NoBytes

notLogin == <<now, challengeVars, AccountsJWKS, AccountsPublicJWKS, fres, cres,
              loadVars, keyVars, quotaVars, billing, put, putOut>>

\* the client keeps the cookie of the response, if there is one
Received(response) ==
    /\ lres' = response
    /\ jar' = IF response.cookie.set THEN response.cookie ELSE jar

\* a login request and its answer
CallLoginPOST(email, pw, kind, cookieOK) ==
    /\ HasToken(kind)
    /\ lreq' = [op |-> "login", email |-> email, password |-> pw,
                token |-> ClientToken(kind)]
    /\ Received(loginPOST(email, pw, ClientToken(kind), AccountsJWKS,
                          AccountsPublicJWKS, now, cookieOK))
    /\ issued' =
          IF email # "" /\ pw # "" /\ ~UserByEmail(email).nil
                /\ hashCompare(pw, UserByEmail(email).PasswordHash)
          THEN LET u == UserByEmail(email)
                   r == TokenForUser(u.Email, u.Sub, AccountsJWKS, now)
               IN  [email |-> u.Email, sub |-> u.Sub, jwks |-> AccountsJWKS,
                    err |-> r.err, tk |-> r.tk, bytes |-> r.bytes]
          ELSE issued
    /\ UNCHANGED <<notLogin, wire, vres>>

\* a logout request and its answer
CallLogoutPOST(kind, cookieOK) ==
    /\ HasToken(kind)
    /\ lreq' = [op |-> "logout", email |-> "", password |-> "",
                token |-> ClientToken(kind)]
    /\ Received(logoutPOST(RequestContext(ClientToken(kind), AccountsPublicJWKS, now),
                           now, cookieOK))
    /\ UNCHANGED <<notLogin, issued, wire, vres>>

\* the client presents the token issued to it as a bearer token
CallValidateBearer ==
    /\ issued.err = "none"
    /\ wire' = issued.bytes
    /\ vres' = ValidateToken(issued.bytes, AccountsPublicJWKS, now)
    /\ UNCHANGED <<notLogin, issued, lres, jar, lreq>>

NextLogin ==
    \/ Tick
    \/ Jump
    \/ \E email \in LoginEmails, pw \in LoginPasswords, kind \in TokenKinds,
          cookieOK \in BOOLEAN : CallLoginPOST(email, pw, kind, cookieOK)
    \/ \E kind \in TokenKinds, cookieOK \in BOOLEAN : CallLogoutPOST(kind, cookieOK)
    \/ CallValidateBearer

\* the service after LoadAccountsKeySet has loaded its signing key
InitLogin ==
    /\ ClockInit /\ AccountInit /\ ChallengeInit /\ LoadInit /\ KeysInit /\ QuotaInit
    /\ AccountsJWKS = LoadAccountsKeySet(JWKSFiles[4], NilSet, NilSet).jwks
    /\ AccountsPublicJWKS = LoadAccountsKeySet(JWKSFiles[4], NilSet, NilSet).pub
    /\ issued = NoIssue
    /\ wire = NoBytes
    /\ vres = NoValidation
    /\ fres = NoFields
    /\ cres = NoFields
    /\ lres = NoResponse

SpecLogin == InitLogin /\ [][NextLogin]_vars

(***************************************************************************)
(* Claims about login and logout, checked under SpecLogin.                 *)
(***************************************************************************)
\* the request carried the email of a user with subject sub and the
\* password of that user
CredentialsOf(sub, email, pw) ==
    /\ ~UserByEmail(email).nil
    /\ UserByEmail(email).Sub = sub
    /\ hashCompare(pw, UserByEmail(email).PasswordHash)

\* the request carried a token for subject sub that passes the validation of
\* signature and expiry
ValidTokenOf(sub, tokenStr) ==
    /\ tokenStr.present
    /\ ValidateToken(tokenStr, AccountsPublicJWKS, now).err = "none"
    /\ ValidateToken(tokenStr, AccountsPublicJWKS, now).token.sub = sub

\* the step is the login with the email and the password of lreq', the
\* token of the kind, and cookieOK
LoginStep(kind, cookieOK) ==
    CallLoginPOST(lreq'.email, lreq'.password, kind, cookieOK)

\* C37: a login response sets a session cookie only after a successful
\* authentication: the cookie wraps a token for subject S only if the
\* request carried S's email with the matching password, or a token for S
\* that passed validation; a login that fails writes no cookie.
C37_CookieOnlyAfterAuthentication ==
    [][\A kind \in TokenKinds, cookieOK \in BOOLEAN :
          LoginStep(kind, cookieOK)
          => /\ lres'.status # 200 => (~lres'.cookie.set /\ jar' = jar)
             /\ lres'.cookie.set
                  => /\ lres'.cookie.value.present
                     /\ \/ CredentialsOf(lres'.cookie.value.payload.sub,
                                          lreq'.email, lreq'.password)
                        \/ ValidTokenOf(lres'.cookie.value.payload.sub,
                                        ClientToken(kind))]_vars

\* user u1 has logged in with email and password and holds the cookie with
\* the token issued to u1
C37_Witness ==
    /\ lreq.op = "login"
    /\ lreq.email = "a@x"
    /\ lreq.password = "pw1"
    /\ lres.status = 200
    /\ jar = lres.cookie
    /\ jar.value = issued.bytes
    /\ jar.value.payload.sub = "u1"

\* C38: credentials trump the token at login: a request with a non-empty
\* email and a non-empty password is decided by the credentials alone, so a
\* wrong password is refused also when the request carries a valid token;
\* the token decides only when the email or the password is empty.
C38_CredentialsTrumpToken ==
    [][\A kind \in TokenKinds, cookieOK \in BOOLEAN :
          LoginStep(kind, cookieOK)
          => IF lreq'.email # "" /\ lreq'.password # ""
             THEN /\ lres' = loginPOSTCredentials(lreq'.email, lreq'.password,
                                                  AccountsJWKS, now, cookieOK)
                  /\ (\A sub \in {"u1", "u2"} :
                         ~CredentialsOf(sub, lreq'.email, lreq'.password))
                        => (lres'.status = 401 /\ ~lres'.cookie.set)
             ELSE lres' = loginPOSTToken(ClientToken(kind),
                             ValidateToken(ClientToken(kind), AccountsPublicJWKS, now),
                             now, cookieOK)]_vars

\* a login with the email of u2, a wrong password and a token that is valid
\* has been refused
C38_Witness ==
    /\ lreq.op = "login"
    /\ lreq.email = "b@x"
    /\ lreq.password = "pw1"
    /\ ValidTokenOf("u1", lreq.token)
    /\ lres.status = 401
    /\ ~lres.cookie.set

\* C39: logout ends the cookie session, and only for an authenticated
\* caller: with a valid token in the context of the request it writes the
\* session cookie with an empty value and an expiry already in the past;
\* without one it answers 401 and writes no cookie.
C39_LogoutClearsCookie ==
    [][\A kind \in TokenKinds, cookieOK \in BOOLEAN :
          CallLogoutPOST(kind, cookieOK)
          => IF RequestContext(ClientToken(kind), AccountsPublicJWKS, now).hasToken
             THEN cookieOK
                    => /\ lres'.status = 200
                       /\ jar' = lres'.cookie
                       /\ jar'.set
                       /\ ~jar'.value.present
                       /\ jar'.expires < Unix(now)
             ELSE /\ lres'.status = 401
                  /\ ~lres'.cookie.set
                  /\ jar' = jar]_vars

\* a client that held a cookie has logged out with its token: the cookie it
\* holds now is empty and has expired
C39_Witness ==
    /\ lreq.op = "logout"
    /\ lreq.token.present
    /\ lreq.token = issued.bytes
    /\ lres.status = 200
    /\ jar.set
    /\ ~jar.value.present
    /\ jar.expires < Unix(now)

\* C40: the validity of a token does not depend on a cookie that wraps it:
\* presented as a bearer token it validates until its exp claim, also after
\* logout has cleared the cookie, and no longer once exp has passed, whether
\* or not a cookie still holds it.
C40_TokenOutlivesCookie ==
    [][CallValidateBearer
       => /\ now <= Expiration(issued.tk) => vres'.err = "none"
          /\ now > Expiration(issued.tk) => vres'.err = ErrTokenExpired]_vars

\* the client has logged out, its cookie is cleared, and the token it was
\* issued has validated as a bearer token afterwards
C40_Witness ==
    /\ lreq.op = "logout"
    /\ lres.status = 200
    /\ jar.set
    /\ ~jar.value.present
    /\ wire.present
    /\ wire = issued.bytes
    /\ vres.err = "none"

=============================================================================
